---- MODULE Spec2Model ----
(***************************************************************************)
(* A model of scripts/extract_pdf_kv.py: the adaptive PDF key/value         *)
(* extraction pipeline (fingerprint, backend selection, extraction with     *)
(* fallback, dedup, scanned-document detection, OCR fallback, envelope).    *)
(*                                                                          *)
(* Text is modelled as a sequence of one-character strings, so that         *)
(* normalize, lower-casing, splitting and length checks are computed the    *)
(* way the Python code computes them.  Loops over lists that can hold       *)
(* hundreds of items are written as left folds that split their index       *)
(* range in two, which keeps the evaluation depth logarithmic; the order    *)
(* in which items are visited is that of the Python loop.                   *)
(***************************************************************************)
EXTENDS Integers, Sequences, FiniteSets, TLC

(***************************************************************************)
(* Characters and strings                                                   *)
(***************************************************************************)

\* The characters re's \s matches among those the documents below use.
Whitespace == {" ", "\t", "\n"}

Digits == {"0", "1", "2", "3", "4", "5", "6", "7", "8", "9"}

LowerLetters ==
    {"a", "b", "c", "d", "e", "f", "g", "h", "i", "j", "k", "l", "m",
     "n", "o", "p", "q", "r", "s", "t", "u", "v", "w", "x", "y", "z"}

UpperLetters ==
    {"A", "B", "C", "D", "E", "F", "G", "H", "I", "J", "K", "L", "M",
     "N", "O", "P", "Q", "R", "S", "T", "U", "V", "W", "X", "Y", "Z"}

\* re.search(r"[a-zA-Z0-9]", s)
Alnum == LowerLetters \cup UpperLetters \cup Digits

LowerOf ==
    [c \in UpperLetters |->
       CASE c = "A" -> "a" [] c = "B" -> "b" [] c = "C" -> "c" [] c = "D" -> "d"
         [] c = "E" -> "e" [] c = "F" -> "f" [] c = "G" -> "g" [] c = "H" -> "h"
         [] c = "I" -> "i" [] c = "J" -> "j" [] c = "K" -> "k" [] c = "L" -> "l"
         [] c = "M" -> "m" [] c = "N" -> "n" [] c = "O" -> "o" [] c = "P" -> "p"
         [] c = "Q" -> "q" [] c = "R" -> "r" [] c = "S" -> "s" [] c = "T" -> "t"
         [] c = "U" -> "u" [] c = "V" -> "v" [] c = "W" -> "w" [] c = "X" -> "x"
         [] c = "Y" -> "y" [] c = "Z" -> "z"]

\* str.lower()
lower(s) == [i \in 1..Len(s) |-> IF s[i] \in UpperLetters THEN LowerOf[s[i]] ELSE s[i]]

Min(a, b) == IF a <= b THEN a ELSE b

Max(a, b) == IF a >= b THEN a ELSE b

\* s[:n]
Prefix(s, n) == SubSeq(s, 1, Min(n, Len(s)))

\* normalize: re.sub(r"\s+", " ", text).strip().  Every run of whitespace
\* becomes one space (kept at the position of the run's first character),
\* then the leading and the trailing space are stripped.
normalize(s) ==
    LET marked == [i \in 1..Len(s) |->
                     IF s[i] \in Whitespace
                       THEN IF i > 1 /\ s[i-1] \notin Whitespace THEN " " ELSE "DROP"
                       ELSE s[i]]
        strip(collapsed) ==
            IF Len(collapsed) > 0 /\ collapsed[Len(collapsed)] = " "
              THEN SubSeq(collapsed, 1, Len(collapsed) - 1)
              ELSE collapsed
    IN  strip(SelectSeq(marked, LAMBDA c : c # "DROP"))

\* re.search(r"[a-zA-Z0-9]", s) is not None
HasAlnum(s) == \E i \in 1..Len(s) : s[i] \in Alnum

\* The index of the first occurrence of sep in s, 0 when sep does not occur
\* (sep in s; s.split(sep, 1) cuts there).
IndexOf(s, sep) ==
    LET first(at) == IF at = {} THEN 0 ELSE CHOOSE i \in at : \A j \in at : i <= j
    IN  first({i \in 1..(Len(s) - Len(sep) + 1) : SubSeq(s, i, i + Len(sep) - 1) = sep})

\* "\n".join(lines[lo..hi])
RECURSIVE JoinLines(_, _, _)
JoinLines(lines, lo, hi) ==
    IF lo > hi THEN << >>
    ELSE IF lo = hi THEN lines[lo]
    ELSE LET mid == (lo + hi) \div 2
         IN  JoinLines(lines, lo, mid) \o <<"\n">> \o JoinLines(lines, mid + 1, hi)

\* str.splitlines() for the line boundary "\n": the text between line
\* breaks, with no empty last line after a final line break.
splitlines(s) ==
    LET cut(brk, count) ==
            [k \in 1..count |->
               SubSeq(s, IF k = 1 THEN 1 ELSE brk[k-1] + 1,
                         IF k <= Len(brk) THEN brk[k] - 1 ELSE Len(s))]
        lines(brk) ==
            cut(brk, IF Len(s) = 0 THEN 0
                     ELSE IF Len(brk) > 0 /\ brk[Len(brk)] = Len(s) THEN Len(brk)
                     ELSE Len(brk) + 1)
    IN  lines(SelectSeq([i \in 1..Len(s) |-> i], LAMBDA i : s[i] = "\n"))

(***************************************************************************)
(* Tokens                                                                   *)
(***************************************************************************)

\* detect_available_backends: the adaptive backends that are probed.
Backends == {"pdfplumber", "pymupdf", "camelot", "tabula"}

\* What --backend can hold after argparse: the recognised tokens, one of
\* them in another case and with a blank, and "bogus" for any other text.
BackendArgs ==
    {"auto", "pdfplumber", "pymupdf", "camelot", "tabula", "legacy", " PdfPlumber", "bogus"}

\* normalize(str(value or "")).lower() on the option texts used here: all
\* but one are lower-case words without blanks already.
TokenOf(value) == IF value = " PdfPlumber" THEN "pdfplumber" ELSE value

normalize_backend(value) ==
    IF TokenOf(value) \in {"auto", "pdfplumber", "pymupdf", "camelot", "tabula", "legacy"}
      THEN TokenOf(value)
      ELSE "auto"

OcrBackends == {"tesseract", "paddleocr"}

OcrBackendArgs == {"auto", "none", "tesseract", "paddleocr", "bogus"}

normalize_ocr_backend(value) ==
    IF TokenOf(value) \in {"auto", "none", "tesseract", "paddleocr"}
      THEN TokenOf(value)
      ELSE "auto"

Surfaces == {"pdf_kv", "pdf_table", "scanned_pdf_ocr_kv", "scanned_pdf_ocr_table"}

(***************************************************************************)
(* Pairs and records                                                        *)
(***************************************************************************)

MinKeyLen == 2

MaxKeyLen == 160

MaxValueLen == 1200

\* The separators of parse_line_pair, in the order the code tries them.
separators == << <<":">>, <<" ", "-", " ">>, <<" ", "=", " ">>, <<"\t">> >>

\* parse_line_pair: <<key, value>>, both empty when the line gives no pair.
parse_line_pair(line) ==
    LET split(normalized, sep, at) ==
            <<normalize(SubSeq(normalized, 1, at - 1)),
              normalize(SubSeq(normalized, at + Len(sep), Len(normalized)))>>
        first(normalized, present) ==
            IF normalized = << >> \/ present = {}
              THEN << << >>, << >> >>
              ELSE LET k == CHOOSE x \in present : \A y \in present : x <= y
                   IN  split(normalized, separators[k], IndexOf(normalized, separators[k]))
        parse(normalized) ==
            first(normalized,
                  {k \in 1..Len(separators) : IndexOf(normalized, separators[k]) > 0})
    IN  parse(normalize(line))

\* A variant of pair_is_valid whose upper bound on the key is off by one
\* (>= read as >): what C2 must tell apart from pair_is_valid.
pair_is_valid_off_by_one(key, value) ==
    IF key = << >> \/ value = << >> THEN FALSE
    ELSE IF Len(key) < MinKeyLen \/ Len(key) > MaxKeyLen + 1 THEN FALSE
    ELSE IF Len(value) > MaxValueLen THEN FALSE
    ELSE IF ~HasAlnum(key) THEN FALSE
    ELSE IF ~HasAlnum(value) THEN FALSE
    ELSE TRUE

pair_is_valid(key, value) ==
    IF key = << >> \/ value = << >> THEN FALSE
    ELSE IF Len(key) < MinKeyLen \/ Len(key) > MaxKeyLen THEN FALSE
    ELSE IF Len(value) > MaxValueLen THEN FALSE
    ELSE IF ~HasAlnum(key) THEN FALSE
    ELSE IF ~HasAlnum(value) THEN FALSE
    ELSE TRUE

\* An OCR confidence: None, or the mean sum/(100*n) of n token confidences
\* given in percent.
NoConfidence == [some |-> FALSE, sum |-> 0, n |-> 1]

\* table_id is << >> for None and <<page, index>> for f"p{page}_t{index}".
NoTable == << >>

\* A variant of build_pair_record whose normalized_key and
\* normalized_value are lower-cased: what C20 must tell apart from
\* build_pair_record.
build_pair_record_lower_cased(key, value, page_number, surface, backend, row_index, table_id, ocr_confidence, ocr_low_confidence) ==
    LET page == Max(1, page_number)
        row == Max(1, row_index)
        record(normalized_key, normalized_value, surface_token) ==
            [key |-> normalized_key,
             value |-> normalized_value,
             raw_key |-> key,
             raw_value |-> value,
             normalized_key |-> lower(normalized_key),
             normalized_value |-> lower(normalized_value),
             table_id |-> table_id,
             row_id |-> IF surface_token = "pdf_table"
                          THEN <<"pdf_", page, ".tr_", row>>
                        ELSE IF surface_token = "scanned_pdf_ocr_table"
                          THEN <<"sc_pdf_", page, ".ocr_tr_", row>>
                        ELSE IF surface_token = "scanned_pdf_ocr_kv"
                          THEN <<"sc_pdf_", page, ".ocr_kv_", row>>
                        ELSE <<"pdf_", page, ".kv_", row>>,
             surface |-> surface_token,
             page |-> page,
             backend |-> IF normalize_backend(backend) # "auto"
                           THEN normalize_backend(backend) ELSE backend,
             ocr_confidence |-> ocr_confidence,
             ocr_low_confidence |-> ocr_low_confidence]
    IN  record(normalize(key), normalize(value),
               IF surface \in Surfaces THEN surface ELSE "pdf_kv")

\* build_pair_record.  row_id is kept as <<prefix, page, infix, row>>: the
\* zero-padded decimal rendering of page and row is one-to-one.  The fields
\* unit_hint, section_header, column_header, bbox and path are left out:
\* nothing below reads them.
build_pair_record(key, value, page_number, surface, backend, row_index, table_id, ocr_confidence, ocr_low_confidence) ==
    LET page == Max(1, page_number)
        row == Max(1, row_index)
        record(normalized_key, normalized_value, surface_token) ==
            [key |-> normalized_key,
             value |-> normalized_value,
             raw_key |-> key,
             raw_value |-> value,
             normalized_key |-> normalized_key,
             normalized_value |-> normalized_value,
             table_id |-> table_id,
             row_id |-> IF surface_token = "pdf_table"
                          THEN <<"pdf_", page, ".tr_", row>>
                        ELSE IF surface_token = "scanned_pdf_ocr_table"
                          THEN <<"sc_pdf_", page, ".ocr_tr_", row>>
                        ELSE IF surface_token = "scanned_pdf_ocr_kv"
                          THEN <<"sc_pdf_", page, ".ocr_kv_", row>>
                        ELSE <<"pdf_", page, ".kv_", row>>,
             surface |-> surface_token,
             page |-> page,
             backend |-> IF normalize_backend(backend) # "auto"
                           THEN normalize_backend(backend) ELSE backend,
             ocr_confidence |-> ocr_confidence,
             ocr_low_confidence |-> ocr_low_confidence]
    IN  record(normalize(key), normalize(value),
               IF surface \in Surfaces THEN surface ELSE "pdf_kv")

\* One pass of the loop of extract_pairs_from_text over raw_line; acc.done
\* is the loop's break.
TextStep(acc, raw_line, ctx) ==
    LET grown(pairs) ==
            [pairs |-> pairs, row_index |-> acc.row_index + 1,
             done |-> Len(pairs) >= ctx.limit]
        add(kv) ==
            IF acc.done \/ ~pair_is_valid(kv[1], kv[2]) THEN acc
            ELSE grown(Append(acc.pairs,
                              build_pair_record(kv[1], kv[2], ctx.page_number, ctx.surface,
                                                ctx.backend, acc.row_index + 1, NoTable,
                                                ctx.ocr_confidence, ctx.ocr_low_confidence)))
    IN  add(parse_line_pair(raw_line))

RECURSIVE TextLoop(_, _, _, _, _)
TextLoop(lines, lo, hi, acc, ctx) ==
    IF lo > hi \/ acc.done THEN acc
    ELSE IF lo = hi THEN TextStep(acc, lines[lo], ctx)
    ELSE LET mid == (lo + hi) \div 2
         IN  TextLoop(lines, mid + 1, hi, TextLoop(lines, lo, mid, acc, ctx), ctx)

\* A variant of extract_pairs_from_text that gives every record the
\* default surface: what C19 must tell apart from extract_pairs_from_text.
extract_pairs_from_text_default_surface(text, limit, page_number, backend, start_index, surface, ocr_confidence, ocr_low_confidence) ==
    LET ctx == [limit |-> limit, page_number |-> page_number, backend |-> backend,
                surface |-> "pdf_kv", ocr_confidence |-> ocr_confidence,
                ocr_low_confidence |-> ocr_low_confidence]
        out(acc) == [pairs |-> acc.pairs, row_index |-> acc.row_index]
        loop(lines) ==
            out(TextLoop(lines, 1, Len(lines),
                         [pairs |-> << >>, row_index |-> Max(0, start_index), done |-> FALSE],
                         ctx))
    IN  loop(splitlines(text))

\* A variant of extract_pairs_from_text that starts its row counter at 0
\* whatever start_index is: what C16 must tell apart from
\* extract_pairs_from_text.
extract_pairs_from_text_restarting(text, limit, page_number, backend, start_index, surface, ocr_confidence, ocr_low_confidence) ==
    LET ctx == [limit |-> limit, page_number |-> page_number, backend |-> backend,
                surface |-> surface, ocr_confidence |-> ocr_confidence,
                ocr_low_confidence |-> ocr_low_confidence]
        out(acc) == [pairs |-> acc.pairs, row_index |-> acc.row_index]
        loop(lines) ==
            out(TextLoop(lines, 1, Len(lines),
                         [pairs |-> << >>, row_index |-> 0, done |-> FALSE],
                         ctx))
    IN  loop(splitlines(text))

\* extract_pairs_from_text: [pairs, row_index].
extract_pairs_from_text(text, limit, page_number, backend, start_index, surface, ocr_confidence, ocr_low_confidence) ==
    LET ctx == [limit |-> limit, page_number |-> page_number, backend |-> backend,
                surface |-> surface, ocr_confidence |-> ocr_confidence,
                ocr_low_confidence |-> ocr_low_confidence]
        out(acc) == [pairs |-> acc.pairs, row_index |-> acc.row_index]
        loop(lines) ==
            out(TextLoop(lines, 1, Len(lines),
                         [pairs |-> << >>, row_index |-> Max(0, start_index), done |-> FALSE],
                         ctx))
    IN  loop(splitlines(text))

\* " | ".join(cells[lo..hi])
RECURSIVE JoinCells(_, _, _)
JoinCells(cells, lo, hi) ==
    IF lo > hi THEN << >>
    ELSE IF lo = hi THEN cells[lo]
    ELSE cells[lo] \o <<" ", "|", " ">> \o JoinCells(cells, lo + 1, hi)

\* A variant of TableStep that keeps the empty cells of the row: what C14
\* must tell apart from TableStep.
TableStepKeepingEmptyCells(acc, row, ctx) ==
    LET grown(pairs) ==
            [pairs |-> pairs, row_index |-> acc.row_index + 1,
             done |-> Len(pairs) >= ctx.limit]
        add(key, value) ==
            IF ~pair_is_valid(key, value) THEN acc
            ELSE grown(Append(acc.pairs,
                              build_pair_record(key, value, ctx.page_number, ctx.surface,
                                                ctx.backend, acc.row_index + 1, ctx.table_id,
                                                ctx.ocr_confidence, ctx.ocr_low_confidence)))
        step(cells) ==
            IF acc.done \/ Len(cells) < 2 THEN acc
            ELSE add(cells[1], JoinCells(cells, 2, Len(cells)))
    IN  step([i \in 1..Len(row) |-> normalize(row[i])])

\* One pass of the loop of extract_pairs_from_table over row.
TableStep(acc, row, ctx) ==
    LET grown(pairs) ==
            [pairs |-> pairs, row_index |-> acc.row_index + 1,
             done |-> Len(pairs) >= ctx.limit]
        add(key, value) ==
            IF ~pair_is_valid(key, value) THEN acc
            ELSE grown(Append(acc.pairs,
                              build_pair_record(key, value, ctx.page_number, ctx.surface,
                                                ctx.backend, acc.row_index + 1, ctx.table_id,
                                                ctx.ocr_confidence, ctx.ocr_low_confidence)))
        step(cells) ==
            IF acc.done \/ Len(cells) < 2 THEN acc
            ELSE add(cells[1], JoinCells(cells, 2, Len(cells)))
    IN  step(SelectSeq([i \in 1..Len(row) |-> normalize(row[i])],
                       LAMBDA cell : cell # << >>))

RECURSIVE TableLoop(_, _, _, _, _)
TableLoop(table, lo, hi, acc, ctx) ==
    IF lo > hi \/ acc.done THEN acc
    ELSE IF lo = hi THEN TableStep(acc, table[lo], ctx)
    ELSE LET mid == (lo + hi) \div 2
         IN  TableLoop(table, mid + 1, hi, TableLoop(table, lo, mid, acc, ctx), ctx)

\* extract_pairs_from_table: [pairs, row_index].
extract_pairs_from_table(table, limit, page_number, backend, table_id, start_index) ==
    LET ctx == [limit |-> limit, page_number |-> page_number, backend |-> backend,
                surface |-> "pdf_table", table_id |-> table_id,
                ocr_confidence |-> NoConfidence, ocr_low_confidence |-> FALSE]
        out(acc) == [pairs |-> acc.pairs, row_index |-> acc.row_index]
    IN  out(TableLoop(table, 1, Len(table),
                      [pairs |-> << >>, row_index |-> Max(0, start_index), done |-> FALSE],
                      ctx))

\* The signature dedupe_pairs compares: (key.lower(), value.lower()) of the
\* normalized key and value.
Signature(pair) ==
    <<lower(normalize(pair.normalized_key)), lower(normalize(pair.normalized_value))>>

\* A variant of DedupeStep that compares the signatures as they are, not
\* lower-cased: what C15 must tell apart from DedupeStep.
DedupeStepCaseSensitive(acc, pair, limit) ==
    LET grown(signature, out) ==
            [seen |-> acc.seen \cup {signature}, out |-> out, done |-> Len(out) >= limit]
        add(signature) ==
            IF signature \in acc.seen THEN acc
            ELSE grown(signature, Append(acc.out, pair))
        step(key, value) ==
            IF acc.done THEN acc
            ELSE IF key = << >> \/ value = << >> THEN acc
            ELSE add(<<key, value>>)
    IN  step(normalize(pair.normalized_key), normalize(pair.normalized_value))

\* One pass of the loop of dedupe_pairs over pair.
DedupeStep(acc, pair, limit) ==
    LET grown(signature, out) ==
            [seen |-> acc.seen \cup {signature}, out |-> out, done |-> Len(out) >= limit]
        add(signature) ==
            IF signature \in acc.seen THEN acc
            ELSE grown(signature, Append(acc.out, pair))
        step(key, value) ==
            IF acc.done THEN acc
            ELSE IF key = << >> \/ value = << >> THEN acc
            ELSE add(<<lower(key), lower(value)>>)
    IN  step(normalize(pair.normalized_key), normalize(pair.normalized_value))

RECURSIVE DedupeLoop(_, _, _, _, _)
DedupeLoop(pairs, lo, hi, acc, limit) ==
    IF lo > hi \/ acc.done THEN acc
    ELSE IF lo = hi THEN DedupeStep(acc, pairs[lo], limit)
    ELSE LET mid == (lo + hi) \div 2
         IN  DedupeLoop(pairs, mid + 1, hi, DedupeLoop(pairs, lo, mid, acc, limit), limit)

\* A variant of dedupe_pairs that never stops at the limit: what C1 must
\* tell apart from dedupe_pairs.
dedupe_pairs_without_limit(pairs, limit) ==
    DedupeLoop(pairs, 1, Len(pairs), [seen |-> {}, out |-> << >>, done |-> FALSE],
               Len(pairs) + limit + 1).out

dedupe_pairs(pairs, limit) ==
    DedupeLoop(pairs, 1, Len(pairs), [seen |-> {}, out |-> << >>, done |-> FALSE], limit).out

IsTableSurface(pair) == pair.surface \in {"pdf_table", "scanned_pdf_ocr_table"}

\* split_pairs_by_surface: [kv_pairs, table_pairs].
split_pairs_by_surface(pairs) ==
    [kv_pairs |-> SelectSeq(pairs, LAMBDA pair : ~IsTableSurface(pair)),
     table_pairs |-> SelectSeq(pairs, IsTableSurface)]

(***************************************************************************)
(* Fingerprint, backend selection, scanned-document detection               *)
(***************************************************************************)

\* round(num / den, d) with scale = 10^d, as an integer count of 10^-d
\* units; halves go to the even neighbour.  (Python rounds the binary
\* float; the two agree unless num/den is within float error of a half.)
RoundScaled(num, den, scale) ==
    LET q == (num * scale) \div den
        r == (num * scale) % den
    IN  IF 2 * r < den THEN q
        ELSE IF 2 * r > den THEN q + 1
        ELSE IF q % 2 = 0 THEN q ELSE q + 1

Micro == 1000000

\* The normalized non-empty lines of a page's text:
\* [normalize(line) for line in text.splitlines()] without the empty ones.
NormalizedLines(text) ==
    LET keep(raw) ==
            SelectSeq([k \in 1..Len(raw) |-> normalize(raw[k])], LAMBDA line : line # << >>)
    IN  keep(splitlines(text))

\* dict.get(token) on an availability map: absent tokens are falsy.
IsAvailable(available, token) == token \in DOMAIN available /\ available[token]

\* The fingerprint main() starts from (all counts zero).  table_density is
\* in units of 10^-6, avg_chars_per_page in units of 10^-2.
ZeroFingerprint ==
    [pages_scanned |-> 0, tables_found |-> 0, lines_scanned |-> 0, text_chars |-> 0,
     table_density |-> 0, avg_chars_per_page |-> 0]

\* The counts of fingerprint_with_pdfplumber after pages 1..n of the
\* document (pdf.pages[:max_pages] is cut by the caller).
RECURSIVE FingerprintCounts(_, _, _)
FingerprintCounts(pages, n, with_tables) ==
    IF n = 0 THEN [pages_scanned |-> 0, tables_found |-> 0, lines_scanned |-> 0, text_chars |-> 0]
    ELSE LET page == pages[n]
             tables == IF page.tables_raise THEN << >> ELSE page.tables
             count(before, normalized_lines) ==
                 [pages_scanned |-> before.pages_scanned + 1,
                  tables_found |-> before.tables_found
                                     + (IF with_tables THEN Len(tables) ELSE 0),
                  lines_scanned |-> before.lines_scanned + Len(normalized_lines),
                  text_chars |-> before.text_chars
                                   + Len(JoinLines(normalized_lines, 1, Len(normalized_lines)))]
         IN  count(FingerprintCounts(pages, n - 1, with_tables), NormalizedLines(page.text))

MakeFingerprint(c, table_density) ==
    [pages_scanned |-> c.pages_scanned, tables_found |-> c.tables_found,
     lines_scanned |-> c.lines_scanned, text_chars |-> c.text_chars,
     table_density |-> table_density,
     avg_chars_per_page |-> IF c.pages_scanned > 0
                              THEN RoundScaled(c.text_chars, c.pages_scanned, 100) ELSE 0]

fingerprint_with_pdfplumber(document, max_pages) ==
    LET result(c) ==
            MakeFingerprint(c, IF c.pages_scanned > 0
                                 THEN RoundScaled(c.tables_found, c.pages_scanned, Micro)
                                 ELSE 0)
    IN  result(FingerprintCounts(document.pages, Min(max_pages, Len(document.pages)), TRUE))

fingerprint_with_pymupdf(document, max_pages) ==
    MakeFingerprint(FingerprintCounts(document.pages, Min(max_pages, Len(document.pages)),
                                      FALSE),
                    0)

\* Whether a fingerprint routine raises: both read the text of every page
\* they count (lines 290, 322) outside any try block of their own.
fingerprint_raises(document, max_pages) ==
    \E p \in 1..Min(max_pages, Len(document.pages)) : document.pages[p].text_raises

\* 0.35, in units of 10^-6.
TableDenseThreshold == 350000

\* The ranked list of choose_backend, after its removal of duplicates (the
\* list never holds one).
\* A variant of RankedBackends that ranks camelot first whatever the table
\* density: what C7 must tell apart from RankedBackends.
RankedBackendsCamelotFirst(table_density) ==
    <<"camelot", "pdfplumber", "pymupdf", "tabula">>

RankedBackends(table_density) ==
    (IF table_density >= TableDenseThreshold THEN <<"camelot">> ELSE << >>)
      \o <<"pdfplumber", "pymupdf", "tabula">>

\* first_available() over a ranked list, none being the result when no
\* token of the list is available.
RECURSIVE FirstAvailable(_, _, _)
FirstAvailable(ranked, available, none) ==
    IF ranked = << >> THEN none
    ELSE IF IsAvailable(available, Head(ranked)) THEN Head(ranked)
    ELSE FirstAvailable(Tail(ranked), available, none)

ChoiceRecord(requested, selected, fallback_used, reason, fingerprint) ==
    [requested |-> requested, selected |-> selected, fallback_used |-> fallback_used,
     reason |-> reason, table_density |-> fingerprint.table_density,
     pages_scanned |-> fingerprint.pages_scanned, tables_found |-> fingerprint.tables_found]

\* A variant of choose_backend that takes a requested backend without
\* testing that it is available: what C5 must tell apart from choose_backend.
choose_backend_unchecked(requested_backend, available, fingerprint) ==
    LET requested == normalize_backend(requested_backend)
        table_density == fingerprint.table_density
        first_available == FirstAvailable(RankedBackends(table_density), available, "legacy")
    IN  IF requested # "auto"
          THEN IF requested = "legacy"
                 THEN ChoiceRecord(requested, "legacy", FALSE, "requested_legacy", fingerprint)
               ELSE ChoiceRecord(requested, requested, FALSE,
                                 "requested_" \o requested, fingerprint)
          ELSE LET selected == first_available
                   reason == IF selected = "camelot" /\ table_density >= TableDenseThreshold
                               THEN "auto_table_dense"
                             ELSE IF selected \in {"pdfplumber", "pymupdf", "tabula"}
                               THEN "auto_" \o selected
                             ELSE "auto_no_backend_available"
               IN  ChoiceRecord(requested, selected, FALSE, reason, fingerprint)

\* A variant of choose_backend that tests availability before it looks for
\* the legacy token: what C6 must tell apart from choose_backend.
choose_backend_legacy_late(requested_backend, available, fingerprint) ==
    LET requested == normalize_backend(requested_backend)
        table_density == fingerprint.table_density
        first_available == FirstAvailable(RankedBackends(table_density), available, "legacy")
    IN  IF requested # "auto"
          THEN IF IsAvailable(available, requested)
                 THEN ChoiceRecord(requested, requested, FALSE,
                                   "requested_" \o requested, fingerprint)
               ELSE IF requested = "legacy" /\ first_available = "legacy"
                 THEN ChoiceRecord(requested, "legacy", FALSE, "requested_legacy", fingerprint)
               ELSE ChoiceRecord(requested, first_available, TRUE,
                                 "requested_unavailable_fallback_" \o first_available,
                                 fingerprint)
          ELSE LET selected == first_available
                   reason == IF selected = "camelot" /\ table_density >= TableDenseThreshold
                               THEN "auto_table_dense"
                             ELSE IF selected \in {"pdfplumber", "pymupdf", "tabula"}
                               THEN "auto_" \o selected
                             ELSE "auto_no_backend_available"
               IN  ChoiceRecord(requested, selected, FALSE, reason, fingerprint)

choose_backend(requested_backend, available, fingerprint) ==
    LET requested == normalize_backend(requested_backend)
        table_density == fingerprint.table_density
        first_available == FirstAvailable(RankedBackends(table_density), available, "legacy")
    IN  IF requested # "auto"
          THEN IF requested = "legacy"
                 THEN ChoiceRecord(requested, "legacy", FALSE, "requested_legacy", fingerprint)
               ELSE IF IsAvailable(available, requested)
                 THEN ChoiceRecord(requested, requested, FALSE,
                                   "requested_" \o requested, fingerprint)
               ELSE ChoiceRecord(requested, first_available, TRUE,
                                 "requested_unavailable_fallback_" \o first_available,
                                 fingerprint)
          ELSE LET selected == first_available
                   reason == IF selected = "camelot" /\ table_density >= TableDenseThreshold
                               THEN "auto_table_dense"
                             ELSE IF selected \in {"pdfplumber", "pymupdf", "tabula"}
                               THEN "auto_" \o selected
                             ELSE "auto_no_backend_available"
               IN  ChoiceRecord(requested, selected, FALSE, reason, fingerprint)

choose_ocr_backend(requested_backend, available) ==
    LET requested == normalize_ocr_backend(requested_backend)
        first_available == FirstAvailable(<<"tesseract", "paddleocr">>, available, "none")
    IN  IF requested = "none"
          THEN [requested |-> requested, selected |-> "none", fallback_used |-> FALSE,
                reason |-> "requested_none"]
        ELSE IF requested \in {"tesseract", "paddleocr"}
          THEN IF IsAvailable(available, requested)
                 THEN [requested |-> requested, selected |-> requested,
                       fallback_used |-> FALSE, reason |-> "requested_" \o requested]
                 ELSE [requested |-> requested, selected |-> first_available,
                       fallback_used |-> first_available # "none",
                       reason |-> IF first_available # "none"
                                    THEN "requested_unavailable_fallback_" \o first_available
                                    ELSE "requested_unavailable_no_backend"]
        ELSE [requested |-> requested, selected |-> first_available, fallback_used |-> FALSE,
              reason |-> IF first_available # "none" THEN "auto_" \o first_available
                         ELSE "auto_no_backend_available"]

\* max(6, pages * 2): the pair yield at or below which a document counts
\* as low-yield.
LowYieldFloor == 6

LowYieldPerPage == 2

\* should_route_to_scanned_ocr.  chars_per_page <= min means
\* text_chars / pages <= min, compared here without the division;
\* the reported chars_per_page and lines_per_page are in units of 10^-4.
\* A variant of should_route_to_scanned_ocr that asks for few characters
\* AND few lines: what C8 must tell apart from should_route_to_scanned_ocr.
should_route_requiring_both(fingerprint, pairs_after_dedupe, min_chars_per_page, min_lines_per_page) ==
    LET pages_scanned == Max(1, fingerprint.pages_scanned)
        text_chars == Max(0, fingerprint.text_chars)
        lines_scanned == Max(0, fingerprint.lines_scanned)
        near_empty_text == /\ text_chars <= Max(0, min_chars_per_page) * pages_scanned
                           /\ lines_scanned <= Max(0, min_lines_per_page) * pages_scanned
        low_pair_yield == pairs_after_dedupe <= Max(LowYieldFloor, pages_scanned * LowYieldPerPage)
    IN  [scanned_pdf_detected |-> near_empty_text /\ low_pair_yield,
         chars_per_page |-> RoundScaled(text_chars, pages_scanned, 10000),
         lines_per_page |-> RoundScaled(lines_scanned, pages_scanned, 10000),
         pairs_after_dedupe |-> pairs_after_dedupe]

\* A variant of should_route_to_scanned_ocr with the comparison of the
\* characters per page turned round (>= for <=): what C9 must tell apart
\* from should_route_to_scanned_ocr.
should_route_inverted(fingerprint, pairs_after_dedupe, min_chars_per_page, min_lines_per_page) ==
    LET pages_scanned == Max(1, fingerprint.pages_scanned)
        text_chars == Max(0, fingerprint.text_chars)
        lines_scanned == Max(0, fingerprint.lines_scanned)
        near_empty_text == \/ text_chars >= Max(0, min_chars_per_page) * pages_scanned
                           \/ lines_scanned <= Max(0, min_lines_per_page) * pages_scanned
        low_pair_yield == pairs_after_dedupe <= Max(LowYieldFloor, pages_scanned * LowYieldPerPage)
    IN  [scanned_pdf_detected |-> near_empty_text /\ low_pair_yield,
         chars_per_page |-> RoundScaled(text_chars, pages_scanned, 10000),
         lines_per_page |-> RoundScaled(lines_scanned, pages_scanned, 10000),
         pairs_after_dedupe |-> pairs_after_dedupe]

should_route_to_scanned_ocr(fingerprint, pairs_after_dedupe, min_chars_per_page, min_lines_per_page) ==
    LET pages_scanned == Max(1, fingerprint.pages_scanned)
        text_chars == Max(0, fingerprint.text_chars)
        lines_scanned == Max(0, fingerprint.lines_scanned)
        near_empty_text == \/ text_chars <= Max(0, min_chars_per_page) * pages_scanned
                           \/ lines_scanned <= Max(0, min_lines_per_page) * pages_scanned
        low_pair_yield == pairs_after_dedupe <= Max(LowYieldFloor, pages_scanned * LowYieldPerPage)
    IN  [scanned_pdf_detected |-> near_empty_text /\ low_pair_yield,
         chars_per_page |-> RoundScaled(text_chars, pages_scanned, 10000),
         lines_per_page |-> RoundScaled(lines_scanned, pages_scanned, 10000),
         pairs_after_dedupe |-> pairs_after_dedupe]

\* The removal of duplicates that keeps first occurrences (the seen/deduped
\* loop of build_attempt_order).
RECURSIVE DedupeTokens(_, _)
DedupeTokens(order, seen) ==
    IF order = << >> THEN << >>
    ELSE IF Head(order) \in seen THEN DedupeTokens(Tail(order), seen)
    ELSE <<Head(order)>> \o DedupeTokens(Tail(order), seen \cup {Head(order)})

AttemptTokens == <<"pdfplumber", "pymupdf", "camelot", "tabula">>

\* A variant of build_attempt_order that walks the backends with the
\* table-specialized one first: what C22 must tell apart from
\* build_attempt_order.
build_attempt_order_tables_first(selected_backend, available) ==
    LET order == <<selected_backend>>
                   \o SelectSeq(<<"camelot", "pdfplumber", "pymupdf", "tabula">>,
                                LAMBDA token : token # selected_backend
                                               /\ IsAvailable(available, token))
    IN  DedupeTokens(order, {})

build_attempt_order(selected_backend, available) ==
    LET order == <<selected_backend>>
                   \o SelectSeq(AttemptTokens,
                                LAMBDA token : token # selected_backend
                                               /\ IsAvailable(available, token))
    IN  DedupeTokens(order, {})

(***************************************************************************)
(* Extraction backends                                                      *)
(*                                                                          *)
(* A document is [pages |-> <<page, ...>>]; a page is                       *)
(*   [text |-> the text layer (what extract_text / get_text return),        *)
(*    tables |-> the table grids (rows of cells),                           *)
(*    tables_raise |-> whether pdfplumber's extract_tables raises there,    *)
(*    text_raises |-> whether extract_text and get_text raise there,        *)
(*    ocr_text |-> what pytesseract.image_to_string reads from the image,   *)
(*    ocr_conf |-> the conf column of image_to_data, in percent (-1 for a   *)
(*                 row without a token),                                    *)
(*    ocr_data_raises |-> whether image_to_data raises there].              *)
(* An extraction is [pairs, text_preview, pages, meta]; its kv_pairs and    *)
(* table_pairs lists, which main() never reads, are kept as the counts in   *)
(* meta, and a pages entry keeps page_number and char_count.                *)
(***************************************************************************)

\* The early stop of every adapter: len(all_pairs) >= max_pairs * 3.
EarlyStopFactor == 3

\* The tables of one pdfplumber page, tables 1..n: the inner for loop with
\* its break.
RECURSIVE PlumberTables(_, _, _, _, _)
PlumberTables(tables, n, page_number, max_pairs, start) ==
    IF n = 0 THEN start
    ELSE LET grown(before, got, all_pairs) ==
                 [all_pairs |-> all_pairs,
                  n_table |-> before.n_table + Len(got.pairs),
                  table_cursor |-> got.row_index,
                  done |-> Len(all_pairs) >= max_pairs * EarlyStopFactor]
             add(before, got) == grown(before, got, before.all_pairs \o got.pairs)
             step(before) ==
                 IF before.done THEN before
                 ELSE add(before,
                          extract_pairs_from_table(tables[n], max_pairs, page_number,
                                                   "pdfplumber", <<page_number, n>>,
                                                   before.table_cursor))
         IN  step(PlumberTables(tables, n - 1, page_number, max_pairs, start))

\* Pages 1..n of extract_with_pdfplumber's loop; done is its break.
RECURSIVE PlumberPages(_, _, _)
PlumberPages(pdf_pages, n, max_pairs) ==
    IF n = 0
      THEN [pages |-> << >>, all_pairs |-> << >>, n_kv |-> 0, n_table |-> 0,
            text_preview_chunks |-> << >>, table_count |-> 0, lines_scanned |-> 0,
            kv_cursor |-> 0, table_cursor |-> 0, done |-> FALSE, raised |-> FALSE]
    ELSE LET page == pdf_pages[n]
             page_number == n
             tables == IF page.tables_raise THEN << >> ELSE page.tables
             grown(before, normalized_lines, page_text, text, after) ==
                 [pages |-> Append(before.pages,
                                   [page_number |-> page_number,
                                    char_count |-> Len(page_text)]),
                  all_pairs |-> after.all_pairs,
                  n_kv |-> before.n_kv + Len(text.pairs),
                  n_table |-> after.n_table,
                  text_preview_chunks |->
                      IF page_text # << >> THEN Append(before.text_preview_chunks, page_text)
                      ELSE before.text_preview_chunks,
                  table_count |-> before.table_count + Len(tables),
                  lines_scanned |-> before.lines_scanned + Len(normalized_lines),
                  kv_cursor |-> text.row_index,
                  table_cursor |-> after.table_cursor,
                  done |-> Len(after.all_pairs) >= max_pairs * EarlyStopFactor,
                  raised |-> FALSE]
             with_tables(before, normalized_lines, page_text, text) ==
                 grown(before, normalized_lines, page_text, text,
                       PlumberTables(tables, Len(tables), page_number, max_pairs,
                                     [all_pairs |-> before.all_pairs \o text.pairs,
                                      n_table |-> before.n_table,
                                      table_cursor |-> before.table_cursor,
                                      done |-> FALSE]))
             with_text(before, normalized_lines, page_text) ==
                 with_tables(before, normalized_lines, page_text,
                             IF page_text # << >>
                               THEN extract_pairs_from_text(page_text, max_pairs, page_number,
                                                            "pdfplumber", before.kv_cursor,
                                                            "pdf_kv", NoConfidence, FALSE)
                               ELSE [pairs |-> << >>, row_index |-> before.kv_cursor])
             with_lines(before, normalized_lines) ==
                 with_text(before, normalized_lines,
                           JoinLines(normalized_lines, 1, Len(normalized_lines)))
             step(before) ==
                 IF before.done THEN before
                 ELSE IF page.text_raises THEN [before EXCEPT !.done = TRUE, !.raised = TRUE]
                 ELSE with_lines(before, NormalizedLines(page.text))
         IN  step(PlumberPages(pdf_pages, n - 1, max_pairs))

extract_with_pdfplumber(document, max_pages, max_pairs, max_text_preview_chars) ==
    LET result(r) ==
            [raised |-> r.raised,
             pairs |-> r.all_pairs,
             text_preview |->
                 Prefix(JoinLines(r.text_preview_chunks, 1, Len(r.text_preview_chunks)),
                        max_text_preview_chars),
             pages |-> r.pages,
             meta |-> [pages_scanned |-> Len(r.pages), lines_scanned |-> r.lines_scanned,
                       tables_found |-> r.table_count,
                       pairs_before_dedupe |-> Len(r.all_pairs),
                       kv_pairs_before_dedupe |-> r.n_kv,
                       table_pairs_before_dedupe |-> r.n_table, backend |-> "pdfplumber"]]
    IN  result(PlumberPages(document.pages, Min(max_pages, Len(document.pages)), max_pairs))

\* Pages 1..n of extract_with_pymupdf's loop; done is its break.
RECURSIVE MuPages(_, _, _)
MuPages(doc, n, max_pairs) ==
    IF n = 0
      THEN [pages |-> << >>, all_pairs |-> << >>, text_preview_chunks |-> << >>,
            lines_scanned |-> 0, kv_cursor |-> 0, done |-> FALSE, raised |-> FALSE]
    ELSE LET page == doc[n]
             page_number == n
             grown(before, normalized_lines, page_text, text, all_pairs) ==
                 [pages |-> Append(before.pages, [page_number |-> page_number,
                                                  char_count |-> Len(page_text)]),
                  all_pairs |-> all_pairs,
                  text_preview_chunks |-> Append(before.text_preview_chunks, page_text),
                  lines_scanned |-> before.lines_scanned + Len(normalized_lines),
                  kv_cursor |-> text.row_index,
                  done |-> Len(all_pairs) >= max_pairs * EarlyStopFactor,
                  raised |-> FALSE]
             with_text(before, normalized_lines, page_text, text) ==
                 grown(before, normalized_lines, page_text, text,
                       before.all_pairs \o text.pairs)
             with_lines(before, normalized_lines, page_text) ==
                 IF page_text = << >>
                   THEN [before EXCEPT
                           !.pages = Append(before.pages, [page_number |-> page_number,
                                                           char_count |-> Len(page_text)]),
                           !.lines_scanned = before.lines_scanned + Len(normalized_lines)]
                   ELSE with_text(before, normalized_lines, page_text,
                                  extract_pairs_from_text(page_text, max_pairs, page_number,
                                                          "pymupdf", before.kv_cursor,
                                                          "pdf_kv", NoConfidence, FALSE))
             step(before) ==
                 IF before.done THEN before
                 ELSE IF page.text_raises THEN [before EXCEPT !.done = TRUE, !.raised = TRUE]
                 ELSE LET lines(normalized_lines) ==
                              with_lines(before, normalized_lines,
                                         JoinLines(normalized_lines, 1, Len(normalized_lines)))
                      IN  lines(NormalizedLines(page.text))
         IN  step(MuPages(doc, n - 1, max_pairs))

extract_with_pymupdf(document, max_pages, max_pairs, max_text_preview_chars) ==
    LET result(r) ==
            [raised |-> r.raised,
             pairs |-> r.all_pairs,
             text_preview |->
                 Prefix(JoinLines(r.text_preview_chunks, 1, Len(r.text_preview_chunks)),
                        max_text_preview_chars),
             pages |-> r.pages,
             meta |-> [pages_scanned |-> Len(r.pages), lines_scanned |-> r.lines_scanned,
                       tables_found |-> 0, pairs_before_dedupe |-> Len(r.all_pairs),
                       kv_pairs_before_dedupe |-> Len(r.all_pairs),
                       table_pairs_before_dedupe |-> 0, backend |-> "pymupdf"]]
    IN  result(MuPages(document.pages, Min(max_pages, Len(document.pages)), max_pairs))

\* camelot.read_pdf(pdf_path, pages="1-max_pages"): the tables of pages
\* 1..n in page order, each with the number of its page.
RECURSIVE CamelotRead(_, _)
CamelotRead(pages, n) ==
    IF n = 0 THEN << >>
    ELSE CamelotRead(pages, n - 1)
           \o [k \in 1..Len(pages[n].tables) |-> [page |-> n, rows |-> pages[n].tables[k]]]

\* The preview lines of one camelot table: its first 20 rows with a
\* non-empty cell, cells joined by " | ".
CamelotPreviewRows == 20

CamelotPreview(rows) ==
    LET cellsOf(row) == SelectSeq([i \in 1..Len(row) |-> normalize(row[i])],
                                  LAMBDA cell : cell # << >>)
        joined(cells) == JoinCells(cells, 1, Len(cells))
        lines(shown) == [k \in 1..Len(shown) |-> joined(cellsOf(shown[k]))]
    IN  SelectSeq(lines(Prefix(rows, CamelotPreviewRows)), LAMBDA line : line # << >>)

\* Tables 1..n of extract_with_camelot's loop; done is its break.
RECURSIVE CamelotTables(_, _, _)
CamelotTables(tables, n, max_pairs) ==
    IF n = 0
      THEN [all_pairs |-> << >>, text_preview_chunks |-> << >>, table_cursor |-> 0,
            pages_seen |-> {}, done |-> FALSE]
    ELSE LET table == tables[n]
             page_number == table.page
             grown(before, got, all_pairs, table_preview_lines) ==
                 [all_pairs |-> all_pairs,
                  text_preview_chunks |->
                      IF table_preview_lines # << >>
                        THEN Append(before.text_preview_chunks,
                                    JoinLines(table_preview_lines, 1,
                                              Len(table_preview_lines)))
                        ELSE before.text_preview_chunks,
                  table_cursor |-> got.row_index,
                  pages_seen |-> before.pages_seen \cup {page_number},
                  done |-> Len(all_pairs) >= max_pairs * EarlyStopFactor]
             add(before, got) ==
                 grown(before, got, before.all_pairs \o got.pairs, CamelotPreview(table.rows))
             step(before) ==
                 IF before.done THEN before
                 ELSE add(before,
                          extract_pairs_from_table(table.rows, max_pairs, page_number,
                                                   "camelot", <<page_number, n>>,
                                                   before.table_cursor))
         IN  step(CamelotTables(tables, n - 1, max_pairs))

\* sorted(list(pages_seen)) as page entries.
RECURSIVE SortedPages(_)
SortedPages(pages_seen) ==
    IF pages_seen = {} THEN << >>
    ELSE LET least == CHOOSE p \in pages_seen : \A q \in pages_seen : p <= q
         IN  <<[page_number |-> least, char_count |-> 0]>> \o SortedPages(pages_seen \ {least})

extract_with_camelot(document, max_pages, max_pairs, max_text_preview_chars) ==
    LET result(tables, r, pages) ==
            [raised |-> FALSE,
             pairs |-> r.all_pairs,
             text_preview |->
                 Prefix(JoinLines(r.text_preview_chunks, 1, Len(r.text_preview_chunks)),
                        max_text_preview_chars),
             pages |-> pages,
             meta |-> [pages_scanned |-> Len(pages), lines_scanned |-> 0,
                       tables_found |-> Len(tables), pairs_before_dedupe |-> Len(r.all_pairs),
                       kv_pairs_before_dedupe |-> 0,
                       table_pairs_before_dedupe |-> Len(r.all_pairs), backend |-> "camelot"]]
        loop(tables, r) == result(tables, r, Prefix(SortedPages(r.pages_seen), max_pages))
        read(tables) == loop(tables, CamelotTables(tables, Len(tables), max_pairs))
    IN  read(CamelotRead(document.pages, Min(max_pages, Len(document.pages))))

\* The confidences extract_with_tesseract_ocr keeps of a page's conf
\* column, in percent: falsy rows (0) and negative rows (-1) are skipped,
\* the others are clamped to [0, 1], that is to at most 100 percent.
KeptConfidences(conf_rows) ==
    LET kept == SelectSeq(conf_rows, LAMBDA raw : raw > 0)
    IN  [i \in 1..Len(kept) |-> Min(100, kept[i])]

RECURSIVE SumSeq(_)
SumSeq(xs) == IF xs = << >> THEN 0 ELSE Head(xs) + SumSeq(Tail(xs))

\* Pages 1..n of extract_with_tesseract_ocr's loop; done is its break.
\* threshold is min_confidence in percent.
RECURSIVE OcrPages(_, _, _, _)
OcrPages(doc, n, max_pairs, threshold) ==
    IF n = 0
      THEN [pages |-> << >>, all_pairs |-> << >>, text_preview_chunks |-> << >>,
            lines_scanned |-> 0, kv_cursor |-> 0, confidence_sum |-> 0,
            confidence_samples |-> 0, low_confidence_pairs |-> 0, done |-> FALSE]
    ELSE LET page == doc[n]
             page_number == n
             grown(before, normalized_lines, page_text, conf_values, row_low_confidence, text, all_pairs) ==
                 [pages |-> Append(before.pages, [page_number |-> page_number,
                                                  char_count |-> Len(page_text)]),
                  all_pairs |-> all_pairs,
                  text_preview_chunks |->
                      IF page_text # << >> THEN Append(before.text_preview_chunks, page_text)
                      ELSE before.text_preview_chunks,
                  lines_scanned |-> before.lines_scanned + Len(normalized_lines),
                  kv_cursor |-> text.row_index,
                  confidence_sum |-> before.confidence_sum + SumSeq(conf_values),
                  confidence_samples |-> before.confidence_samples + Len(conf_values),
                  low_confidence_pairs |->
                      before.low_confidence_pairs
                        + (IF row_low_confidence THEN Len(text.pairs) ELSE 0),
                  done |-> Len(all_pairs) >= max_pairs * EarlyStopFactor]
             with_text(before, normalized_lines, page_text, conf_values, row_low_confidence, text) ==
                 grown(before, normalized_lines, page_text, conf_values, row_low_confidence,
                       text, before.all_pairs \o text.pairs)
             with_confidence(before, normalized_lines, page_text, conf_values, page_confidence, row_low_confidence) ==
                 with_text(before, normalized_lines, page_text, conf_values, row_low_confidence,
                           IF page_text # << >>
                             THEN extract_pairs_from_text(page_text, max_pairs, page_number,
                                                          "tesseract", before.kv_cursor,
                                                          "scanned_pdf_ocr_kv",
                                                          page_confidence, row_low_confidence)
                             ELSE [pairs |-> << >>, row_index |-> before.kv_cursor])
             with_page_confidence(before, normalized_lines, page_text, conf_values, page_confidence) ==
                 with_confidence(before, normalized_lines, page_text, conf_values,
                                 page_confidence,
                                 page_confidence.some
                                   /\ page_confidence.sum < threshold * page_confidence.n)
             with_data(before, normalized_lines, page_text, conf_values) ==
                 with_page_confidence(before, normalized_lines, page_text, conf_values,
                                      IF conf_values # << >>
                                        THEN [some |-> TRUE, sum |-> SumSeq(conf_values),
                                              n |-> Len(conf_values)]
                                        ELSE NoConfidence)
             with_lines(before, normalized_lines) ==
                 with_data(before, normalized_lines,
                           JoinLines(normalized_lines, 1, Len(normalized_lines)),
                           IF page.ocr_data_raises THEN << >>
                           ELSE KeptConfidences(page.ocr_conf))
             step(before) ==
                 IF before.done THEN before
                 ELSE with_lines(before, NormalizedLines(page.ocr_text))
         IN  step(OcrPages(doc, n - 1, max_pairs, threshold))

\* extract_with_tesseract_ocr; min_confidence is in percent, and
\* ocr_confidence_avg in units of 10^-6.
extract_with_tesseract_ocr(document, max_pages, max_pairs, max_text_preview_chars, min_confidence) ==
    LET result(r) ==
            [pairs |-> r.all_pairs,
             text_preview |->
                 Prefix(JoinLines(r.text_preview_chunks, 1, Len(r.text_preview_chunks)),
                        max_text_preview_chars),
             pages |-> r.pages,
             meta |-> [pages_scanned |-> Len(r.pages), lines_scanned |-> r.lines_scanned,
                       tables_found |-> 0, pairs_before_dedupe |-> Len(r.all_pairs),
                       kv_pairs_before_dedupe |-> Len(r.all_pairs),
                       table_pairs_before_dedupe |-> 0, backend |-> "tesseract",
                       ocr_confidence_avg |->
                           IF r.confidence_samples > 0
                             THEN RoundScaled(r.confidence_sum, 100 * r.confidence_samples,
                                              Micro)
                             ELSE 0,
                       ocr_confidence_samples |-> r.confidence_samples,
                       ocr_low_confidence_pairs |-> r.low_confidence_pairs]]
    IN  result(OcrPages(document.pages, Min(max_pages, Len(document.pages)), max_pairs,
                        Max(0, Min(100, min_confidence))))

(***************************************************************************)
(* Documents                                                                *)
(***************************************************************************)

TextPage(text, tables) ==
    [text |-> text, tables |-> tables, tables_raise |-> FALSE, text_raises |-> FALSE,
     ocr_text |-> << >>, ocr_conf |-> << >>, ocr_data_raises |-> FALSE]

ImagePage(text, ocr_text, ocr_conf, ocr_data_raises) ==
    [text |-> text, tables |-> << >>, tables_raise |-> FALSE, text_raises |-> FALSE,
     ocr_text |-> ocr_text, ocr_conf |-> ocr_conf, ocr_data_raises |-> ocr_data_raises]

\* A one-page product sheet.  Its text layer:
\*     Weight: 63 g
\*      weight :  63 G        (the first line again, in other case and spacing)
\*     DPI: 26000
\*                            (an empty line)
\*     note                   (no separator)
\*     x: 1                   (a key of one character)
\*     --: 5                  (a key without a letter or digit)
\*     Sw<TAB>Om              (a tab between two words)
\*     Lod - 1 mm
\* and one table: Sensor | PAW3395 | Optical; Only; (empty) | DPI | 26000.
DocProduct ==
    [pages |-> <<
       TextPage(
         <<"W", "e", "i", "g", "h", "t", ":", " ", "6", "3", " ", "g", "\n", " ", "w", "e", "i", "g", "h", "t", " ", ":", " ", " ", "6", "3", " ", "G", "\n", "D", "P", "I", ":", " ", "2", "6", "0", "0", "0", "\n", "\n", "n", "o", "t", "e", "\n", "x", ":", " ", "1", "\n", "-", "-", ":", " ", "5", "\n", "S", "w", "\t", "O", "m", "\n", "L", "o", "d", " ", "-", " ", "1", " ", "m", "m">>,
         << << << <<"S", "e", "n", "s", "o", "r">>, <<"P", "A", "W", "3", "3", "9", "5">>, <<"O", "p", "t", "i", "c", "a", "l">> >>,
               << <<"O", "n", "l", "y">> >>,
               << << >>, <<"D", "P", "I">>, <<"2", "6", "0", "0", "0">> >> >> >>) >>]

\* A scan of three pages: no text layer (the second page's holds blanks
\* only), the text is in the images.  Page 2 is read with low confidence,
\* page 3 gives no confidence data.
DocScan ==
    [pages |-> <<
       ImagePage(<< >>, <<"W", "e", "i", "g", "h", "t", ":", " ", "6", "3", " ", "g", "\n", "D", "P", "I", ":", " ", "2", "6", "0", "0", "0">>, <<96, -1, 90, 0>>, FALSE),
       ImagePage(<<" ", "\n">>, <<"w", "e", "i", "g", "h", "t", ":", " ", "6", "3", " ", "G", "\n", "L", "o", "d", " ", "-", " ", "1", " ", "m", "m">>, <<30, 40>>, FALSE),
       ImagePage(<< >>, <<"R", "a", "t", "e", " ", "=", " ", "8", "k">>, <<99>>, TRUE) >>]

\* A cover page: one line of text, longer than 45 characters, no table;
\* the image reads the same line.
DocCover ==
    [pages |-> <<
       [text |-> <<"T", "i", "t", "l", "e", ":", " ", "O", "p", "t", "i", "c", "a", "l", " ", "g", "a", "m", "i", "n", "g", " ", "m", "o", "u", "s", "e", " ", "t", "e", "c", "h", "n", "i", "c", "a", "l", " ", "d", "a", "t", "a", " ", "s", "h", "e", "e", "t">>,
        tables |-> << >>, tables_raise |-> FALSE, text_raises |-> FALSE,
        ocr_text |-> <<"T", "i", "t", "l", "e", ":", " ", "O", "p", "t", "i", "c", "a", "l", " ", "g", "a", "m", "i", "n", "g", " ", "m", "o", "u", "s", "e", " ", "t", "e", "c", "h", "n", "i", "c", "a", "l", " ", "d", "a", "t", "a", " ", "s", "h", "e", "e", "t">>,
        ocr_conf |-> <<80>>, ocr_data_raises |-> FALSE] >>]

\* Three pages with a table on the first two; pdfplumber's extract_tables
\* raises on the second.  One table in three pages is below the
\* table-density threshold.
DocTables ==
    [pages |-> <<
       TextPage(<<"S", "p", "e", "c", "s", "\n", "S", "e", "n", "s", "o", "r", ":", " ", "P", "A", "W", "3", "3", "9", "5", "\n", "D", "P", "I", ":", " ", "2", "6", "0", "0", "0", "\n", "R", "a", "t", "e", ":", " ", "8", "k", "\n", "L", "o", "d", ":", " ", "1", " ", "m", "m">>,
                << << << <<"S", "e", "n", "s", "o", "r">>, <<"P", "A", "W", "3", "3", "9", "5">> >>, << <<"B", "u", "t", "t", "o", "n", "s">>, <<"5">> >> >> >>),
       [text |-> <<"S", "i", "z", "e", ":", " ", "1", "2", " ", "m", "m", "\n", "m", "o", "r", "e", "\n", "r", "o", "w", "s", "\n", "h", "e", "r", "e">>,
        tables |-> << << << <<"C", "a", "b", "l", "e">>, <<"U", "S", "B">>, <<"2", " ", "m">> >> >> >>, tables_raise |-> TRUE, text_raises |-> FALSE,
        ocr_text |-> << >>, ocr_conf |-> << >>, ocr_data_raises |-> FALSE],
       TextPage(<<"W", "e", "i", "g", "h", "t", ":", " ", "6", "3", " ", "g", "\n", "e", "n", "d", "\n", "o", "f", "\n", "s", "h", "e", "e", "t">>, << >>) >>]

\* A file without pages.
DocEmpty == [pages |-> << >>]

\* Three pages of text, a table on the first; the text of the second
\* cannot be read: extract_text and get_text raise there.
DocTorn ==
    [pages |-> <<
       TextPage(<<"W", "e", "i", "g", "h", "t", ":", " ", "6", "3", " ", "g">>,
                << << << <<"S", "e", "n", "s", "o", "r">>, <<"P", "A", "W", "3", "3", "9", "5">> >> >> >>),
       [TextPage(<<"D", "P", "I", ":", " ", "2", "6", "0", "0", "0">>, << >>)
          EXCEPT !.text_raises = TRUE],
       TextPage(<<"R", "a", "t", "e", ":", " ", "8", "k">>, << >>) >>]

\* The decimal rendering of a natural number.
DigitChar == <<"0", "1", "2", "3", "4", "5", "6", "7", "8", "9">>

RECURSIVE Decimal(_)
Decimal(n) ==
    IF n < 10 THEN <<DigitChar[n + 1]>>
    ELSE Decimal(n \div 10) \o <<DigitChar[(n % 10) + 1]>>

\* The sizes of the bulk document: BulkPages pages of BulkLines lines
\* "k<i>: v", the key numbers running round 0..BulkKeys-1 from page to page.
BulkPages == 4

BulkLines == 102

BulkKeys == 150

\* The text of page p of the bulk document; the key letter is k on the odd
\* pages and K on the even ones.
BulkText(p, lines, keys) ==
    LET line(i) == <<IF p % 2 = 1 THEN "k" ELSE "K">>
                     \o Decimal(((p - 1) * lines + i - 1) % keys) \o <<":", " ", "v">>
    IN  JoinLines([i \in 1..lines |-> line(i)], 1, lines)

\* A long data sheet with a text layer: more distinct pairs than the
\* smallest max_pairs, and more lines than three times that.
DocBulk == [pages |-> [p \in 1..BulkPages |-> TextPage(BulkText(p, BulkLines, BulkKeys), << >>)]]

\* The table of page p of the bulk document with tables: rows "t<i>", "v",
\* as many as the page has lines.
BulkTable(p, rows) ==
    [i \in 1..rows |-> << <<"t">> \o Decimal((p - 1) * rows + i - 1), <<"v">> >>]

\* The bulk document with one such table on every page.
DocBulkTables ==
    [pages |-> [p \in 1..BulkPages |->
                  TextPage(BulkText(p, BulkLines, BulkKeys), <<BulkTable(p, BulkLines)>>)]]

\* The sizes of the long scan: ScanPages images of ScanLines lines each.
ScanPages == 3

ScanLines == 60

ScanKeys == 80

\* n times the character c.
Repeat(c, n) == [i \in 1..n |-> c]

\* A page whose lines and table rows sit at the length bounds of a pair:
\* keys of MaxKeyLen and MaxKeyLen + 1 characters, values of MaxValueLen
\* and MaxValueLen + 1, a key of MinKeyLen - 1 characters, and a value
\* without a letter or digit.
LongText ==
    JoinLines(<< Repeat("a", MaxKeyLen) \o <<":", " ", "1">>,
                 Repeat("b", MaxKeyLen + 1) \o <<":", " ", "2">>,
                 <<"c", "c", ":", " ">> \o Repeat("3", MaxValueLen),
                 <<"d", "d", ":", " ">> \o Repeat("4", MaxValueLen + 1),
                 Repeat("e", MinKeyLen - 1) \o <<":", " ", "5">>,
                 <<"f", "f", ":", " ", "-", "-">>,
                 <<"g", "g", ":", " ", "7">> >>, 1, 7)

\* A long scan: no text layer; the first image reads the page of DocLong,
\* the others read like pages of the bulk document.
DocBulkScan ==
    [pages |-> <<ImagePage(<< >>, LongText, <<70>>, FALSE)>>
                 \o [p \in 1..ScanPages |->
                       ImagePage(<< >>, BulkText(p, ScanLines, ScanKeys), <<90>>, FALSE)]]

DocLong ==
    [pages |-> <<
       [text |-> LongText,
        tables |-> << << <<Repeat("h", MaxKeyLen), <<"1">> >>,
                         <<Repeat("i", MaxKeyLen + 1), <<"2">> >>,
                         << <<"j", "j">>, Repeat("3", MaxValueLen) >>,
                         << <<"l", "l">>, Repeat("4", MaxValueLen - 2), <<"5">> >>,
                         << <<"?">>, <<"6">> >> >> >>,
        tables_raise |-> FALSE, text_raises |-> FALSE,
        ocr_text |-> << >>, ocr_conf |-> << >>, ocr_data_raises |-> FALSE] >>]

LightDocuments == {"product", "scan", "cover", "tables", "empty", "torn"}

BulkDocuments == {"bulk", "bulkscan", "long", "bulktables"}

Documents == LightDocuments \cup BulkDocuments

Document(name) ==
    CASE name = "product" -> DocProduct
      [] name = "scan" -> DocScan
      [] name = "cover" -> DocCover
      [] name = "tables" -> DocTables
      [] name = "empty" -> DocEmpty
      [] name = "torn" -> DocTorn
      [] name = "bulk" -> DocBulk
      [] name = "bulktables" -> DocBulkTables
      [] name = "bulkscan" -> DocBulkScan
      [] name = "long" -> DocLong

(***************************************************************************)
(* main(): one run of the pipeline                                          *)
(***************************************************************************)

VARIABLES
    pdf,                  \* args.pdf: the name of the document
    args,                 \* the clamped options (main's locals max_pages, ...)
    available,            \* detect_available_backends()
    available_ocr,        \* detect_available_ocr_backends()
    pc,                   \* where main() is
    fingerprint,
    fingerprint_errors,
    backend_choice,
    selected_backend,
    attempts,
    attempt,              \* the index in attempts of the for loop
    extraction,
    extraction_error,
    used_backend,
    deduped_pairs,
    scan_route,
    ocr,                  \* the ocr_* locals of main
    payload,              \* what write_json writes
    executed,             \* the adapters called so far, in call order
    arg,                  \* the input of a function checked on its own
    ret                   \* its result

vars ==
    <<pdf, args, available, available_ocr, pc, fingerprint, fingerprint_errors,
      backend_choice, selected_backend, attempts, attempt, extraction,
      extraction_error, used_backend, deduped_pairs, scan_route, ocr, payload,
      executed, arg, ret>>

\* The defaults of the command line.
DefaultMaxPages == 60

DefaultMaxTextPreviewChars == 20000

DefaultMaxPairs == 5000

DefaultOcrMaxPages == 8

DefaultOcrMaxPairs == 1200

DefaultMinCharsPerPage == 45

DefaultMinLinesPerPage == 3

\* 0.55, in percent.
DefaultMinConfidence == 55

\* The lower clamps main() applies to the options.
MinMaxPages == 1

MinMaxTextPreviewChars == 1000

MinMaxPairs == 100

MinOcrMaxPages == 1

MinOcrMaxPairs == 50

\* main's locals after the clamps of its first lines.
ClampedArgs(backend, max_pairs, enable_scanned_ocr, scanned_ocr_backend, scanned_ocr_max_pairs) ==
    [max_pages |-> Max(MinMaxPages, DefaultMaxPages),
     max_text_preview_chars |-> Max(MinMaxTextPreviewChars, DefaultMaxTextPreviewChars),
     max_pairs |-> Max(MinMaxPairs, max_pairs),
     requested_backend |-> normalize_backend(backend),
     enable_scanned_ocr |-> enable_scanned_ocr,
     requested_scanned_ocr_backend |-> normalize_ocr_backend(scanned_ocr_backend),
     scanned_ocr_max_pages |-> Max(MinOcrMaxPages, DefaultOcrMaxPages),
     scanned_ocr_max_pairs |-> Max(MinOcrMaxPairs, scanned_ocr_max_pairs),
     scanned_ocr_min_chars_per_page |-> Max(0, DefaultMinCharsPerPage),
     scanned_ocr_min_lines_per_page |-> Max(0, DefaultMinLinesPerPage),
     scanned_ocr_min_confidence |-> Max(0, Min(100, DefaultMinConfidence))]

\* "No value yet" for the locals main() assigns later.
None == [some |-> FALSE]

NoChoice == [requested |-> "", selected |-> "", fallback_used |-> FALSE, reason |-> ""]

\* str(exc) of an exception raised by the named routine: a message, or
\* the empty string of an exception raised without one.
ExceptionTexts(routine) == {"", routine \o "_error"}

\* The same for a fingerprint routine, whose message is only ever appended
\* to a fixed prefix: one message stands for all.
FingerprintExceptionTexts(routine) == {routine \o "_error"}

\* The locals of main() that hold nothing before the run starts.
NotStarted ==
    /\ fingerprint = ZeroFingerprint
    /\ fingerprint_errors = << >>
    /\ backend_choice = NoChoice
    /\ selected_backend = ""
    /\ attempts = << >>
    /\ attempt = 0
    /\ extraction = None
    /\ extraction_error = ""
    /\ used_backend = ""
    /\ deduped_pairs = << >>
    /\ scan_route = None
    /\ ocr = None
    /\ payload = None
    /\ executed = << >>

\* A run on one of the documents docs, for the command lines and the
\* installed libraries drawn from the other sets.  Both OCR engines need
\* the fitz module, the one pymupdf is probed by (lines 53, 422-423).
InitRun(docs, backend_args, availables, enables, ocr_backend_args, ocr_availables, max_pairs_args, ocr_max_pairs_args) ==
    /\ pdf \in docs
    /\ \E backend \in backend_args, enable \in enables, ocr_backend \in ocr_backend_args,
          max_pairs \in max_pairs_args, ocr_max_pairs \in ocr_max_pairs_args :
         args = ClampedArgs(backend, max_pairs, enable, ocr_backend, ocr_max_pairs)
    /\ available \in availables
    /\ available_ocr \in ocr_availables
    /\ \A engine \in OcrBackends : available_ocr[engine] => available["pymupdf"]
    /\ pc = "fingerprint"
    /\ NotStarted
    /\ arg = None
    /\ ret = None

\* The OCR installations with tesseract or without; paddleocr is absent.
TesseractOrNothing ==
    {[tesseract |-> TRUE, paddleocr |-> FALSE], [tesseract |-> FALSE, paddleocr |-> FALSE]}

\* Spec: runs with default limits on the small documents, for every
\* --backend, both values of --enable-scanned-ocr and every set of installed
\* PDF libraries; --scanned-ocr-backend is left at its default.
Init ==
    InitRun(LightDocuments, BackendArgs, [Backends -> BOOLEAN], BOOLEAN, {"auto"},
            TesseractOrNothing, {DefaultMaxPairs}, {DefaultOcrMaxPairs})

\* Lines 917-927: the fingerprint, by pdfplumber when it is installed, else
\* by pymupdf when that is; the routine returns ...
FingerprintReturns ==
    /\ pc = "fingerprint"
    /\ ~fingerprint_raises(Document(pdf), args.max_pages)
    /\ \/ /\ IsAvailable(available, "pdfplumber")
          /\ fingerprint' = fingerprint_with_pdfplumber(Document(pdf), args.max_pages)
       \/ /\ ~IsAvailable(available, "pdfplumber")
          /\ IsAvailable(available, "pymupdf")
          /\ fingerprint' = fingerprint_with_pymupdf(Document(pdf), args.max_pages)
    /\ pc' = "choose"
    /\ UNCHANGED <<pdf, args, available, available_ocr, fingerprint_errors, backend_choice,
                   selected_backend, attempts, attempt, extraction, extraction_error,
                   used_backend, deduped_pairs, scan_route, ocr, payload, executed, arg, ret>>

\* A variant of FingerprintRaises that swallows the exception without
\* recording it: what C17 must tell apart from FingerprintRaises.
FingerprintRaisesUnrecorded ==
    /\ pc = "fingerprint"
    /\ IsAvailable(available, "pdfplumber") \/ IsAvailable(available, "pymupdf")
    /\ pc' = "choose"
    /\ UNCHANGED <<pdf, args, available, available_ocr, fingerprint, fingerprint_errors,
                   backend_choice, selected_backend, attempts, attempt, extraction,
                   extraction_error, used_backend, deduped_pairs, scan_route, ocr, payload,
                   executed, arg, ret>>

\* ... or raises, which leaves the zero fingerprint and adds an error.
FingerprintRaises ==
    /\ pc = "fingerprint"
    /\ \/ /\ IsAvailable(available, "pdfplumber")
          /\ \E exc \in FingerprintExceptionTexts("pdfplumber") :
               fingerprint_errors' =
                   Append(fingerprint_errors, "pdfplumber_fingerprint_failed:" \o exc)
       \/ /\ ~IsAvailable(available, "pdfplumber")
          /\ IsAvailable(available, "pymupdf")
          /\ \E exc \in FingerprintExceptionTexts("pymupdf") :
               fingerprint_errors' =
                   Append(fingerprint_errors, "pymupdf_fingerprint_failed:" \o exc)
    /\ pc' = "choose"
    /\ UNCHANGED <<pdf, args, available, available_ocr, fingerprint, backend_choice,
                   selected_backend, attempts, attempt, extraction, extraction_error,
                   used_backend, deduped_pairs, scan_route, ocr, payload, executed, arg, ret>>

\* Neither fingerprinting library is installed: no fingerprint is taken.
FingerprintSkipped ==
    /\ pc = "fingerprint"
    /\ ~IsAvailable(available, "pdfplumber")
    /\ ~IsAvailable(available, "pymupdf")
    /\ pc' = "choose"
    /\ UNCHANGED <<pdf, args, available, available_ocr, fingerprint, fingerprint_errors,
                   backend_choice, selected_backend, attempts, attempt, extraction,
                   extraction_error, used_backend, deduped_pairs, scan_route, ocr, payload,
                   executed, arg, ret>>

\* Lines 929-935: the backend choice and the attempt order.
Choose ==
    /\ pc = "choose"
    /\ backend_choice' = choose_backend(args.requested_backend, available, fingerprint)
    /\ selected_backend' = normalize_backend(backend_choice'.selected)
    /\ attempts' = build_attempt_order(selected_backend', available)
    /\ used_backend' = selected_backend'
    /\ attempt' = 1
    /\ extraction' = None
    /\ extraction_error' = ""
    /\ pc' = "extract"
    /\ UNCHANGED <<pdf, args, available, available_ocr, fingerprint, fingerprint_errors,
                   deduped_pairs, scan_route, ocr, payload, executed, arg, ret>>

\* The adapters main() dispatches to.
Adapters == {"pdfplumber", "pymupdf", "camelot"}

RunAdapter(backend, document) ==
    CASE backend = "pdfplumber" ->
           extract_with_pdfplumber(document, args.max_pages, args.max_pairs,
                                   args.max_text_preview_chars)
      [] backend = "pymupdf" ->
           extract_with_pymupdf(document, args.max_pages, args.max_pairs,
                                args.max_text_preview_chars)
      [] backend = "camelot" ->
           extract_with_camelot(document, args.max_pages, args.max_pairs,
                                args.max_text_preview_chars)

\* A variant of AttemptReturns that leaves used_backend at the backend
\* selected first: what C21 must tell apart from AttemptReturns.
AttemptReturnsKeepingSelected ==
    /\ pc = "extract"
    /\ attempt <= Len(attempts)
    /\ attempts[attempt] \in Adapters
    /\ LET returns(result) ==
               /\ ~result.raised
               /\ extraction' = [some |-> TRUE] @@ result
       IN  returns(RunAdapter(attempts[attempt], Document(pdf)))
    /\ executed' = Append(executed, attempts[attempt])
    /\ pc' = "route"
    /\ UNCHANGED <<pdf, args, available, available_ocr, fingerprint, fingerprint_errors,
                   backend_choice, selected_backend, attempts, attempt, extraction_error,
                   used_backend, deduped_pairs, scan_route, ocr, payload, arg, ret>>

\* Lines 937-964: one pass of the for loop whose adapter returns (no page
\* of the document made it raise); the loop breaks.
AttemptReturns ==
    /\ pc = "extract"
    /\ attempt <= Len(attempts)
    /\ attempts[attempt] \in Adapters
    /\ LET returns(result) ==
               /\ ~result.raised
               /\ extraction' = [some |-> TRUE] @@ result
       IN  returns(RunAdapter(attempts[attempt], Document(pdf)))
    /\ used_backend' = attempts[attempt]
    /\ executed' = Append(executed, attempts[attempt])
    /\ pc' = "route"
    /\ UNCHANGED <<pdf, args, available, available_ocr, fingerprint, fingerprint_errors,
                   backend_choice, selected_backend, attempts, attempt, extraction_error,
                   deduped_pairs, scan_route, ocr, payload, arg, ret>>

\* Lines 965-967: one pass whose adapter raises, on a page or before it
\* reads one; the loop continues.
AttemptRaises ==
    /\ pc = "extract"
    /\ attempt <= Len(attempts)
    /\ attempts[attempt] \in Adapters
    /\ \E exc \in ExceptionTexts(attempts[attempt]) : extraction_error' = exc
    /\ executed' = Append(executed, attempts[attempt])
    /\ attempt' = attempt + 1
    /\ UNCHANGED <<pdf, args, available, available_ocr, pc, fingerprint, fingerprint_errors,
                   backend_choice, selected_backend, attempts, extraction, used_backend,
                   deduped_pairs, scan_route, ocr, payload, arg, ret>>

\* Lines 960-961: one pass for a token without an adapter (tabula, legacy):
\* extraction = None, and the loop continues.
AttemptNoAdapter ==
    /\ pc = "extract"
    /\ attempt <= Len(attempts)
    /\ attempts[attempt] \notin Adapters
    /\ extraction' = None
    /\ attempt' = attempt + 1
    /\ UNCHANGED <<pdf, args, available, available_ocr, pc, fingerprint, fingerprint_errors,
                   backend_choice, selected_backend, attempts, extraction_error, used_backend,
                   deduped_pairs, scan_route, ocr, payload, executed, arg, ret>>

\* A variant of FailureError without the default text: what C3 must tell
\* apart from FailureError.
FailureErrorWithoutDefault == extraction_error

\* Line 972: extraction_error or "no_pdf_backend_available".
FailureError ==
    IF extraction_error # "" THEN extraction_error ELSE "no_pdf_backend_available"

\* Lines 969-1016: the loop ended with extraction = None; the envelope of
\* a run without extraction is written.
FailurePayload ==
    [ok |-> FALSE,
     error |-> FailureError,
     backend |-> [requested |-> args.requested_backend, selected |-> "legacy",
                  fallback_used |-> TRUE, reason |-> "no_backend_available",
                  attempts |-> attempts, available |-> available],
     pairs |-> << >>, kv_pairs |-> << >>, table_pairs |-> << >>,
     ocr_pairs |-> << >>, ocr_kv_pairs |-> << >>, ocr_table_pairs |-> << >>,
     ocr_text_preview |-> << >>, text_preview |-> << >>, pages |-> << >>,
     meta |-> [pages_scanned |-> 0, lines_scanned |-> 0, tables_found |-> 0,
               pairs_before_dedupe |-> 0, pairs_after_dedupe |-> 0,
               kv_pairs_count |-> 0, table_pairs_count |-> 0,
               pdf_fingerprint |-> fingerprint,
               scanned_pdf_detected |-> FALSE,
               scanned_pdf_ocr_enabled |-> args.enable_scanned_ocr,
               scanned_pdf_ocr_attempted |-> FALSE,
               scanned_pdf_ocr_backend_requested |-> args.requested_scanned_ocr_backend,
               scanned_pdf_ocr_backend_selected |-> "none",
               scanned_pdf_ocr_backend_fallback_used |-> FALSE,
               scanned_pdf_ocr_pair_count |-> 0,
               scanned_pdf_ocr_confidence_avg |-> 0,
               scanned_pdf_ocr_low_confidence_pairs |-> 0,
               scanned_pdf_ocr_error |-> ""],
     errors |-> fingerprint_errors]

NoExtraction ==
    /\ pc = "extract"
    /\ attempt > Len(attempts)
    /\ ~extraction.some
    /\ payload' = [some |-> TRUE] @@ FailurePayload
    /\ pc' = "done"
    /\ UNCHANGED <<pdf, args, available, available_ocr, fingerprint, fingerprint_errors,
                   backend_choice, selected_backend, attempts, attempt, extraction,
                   extraction_error, used_backend, deduped_pairs, scan_route, ocr, executed,
                   arg, ret>>

\* A variant of Route whose deduplicated records come in the order of a
\* container without a stable order, first to last or last to first: what
\* C12 must tell apart from Route.
RouteInUnstableOrder ==
    /\ pc = "route"
    /\ LET stable == dedupe_pairs(extraction.pairs, args.max_pairs)
       IN  deduped_pairs' \in {stable, [i \in 1..Len(stable) |-> stable[Len(stable) + 1 - i]]}
    /\ scan_route' = [some |-> TRUE]
           @@ should_route_to_scanned_ocr(fingerprint, Len(deduped_pairs'),
                                          args.scanned_ocr_min_chars_per_page,
                                          args.scanned_ocr_min_lines_per_page)
    /\ LET locals(ocr_choice) ==
               [some |-> TRUE, attempted |-> FALSE,
                backend_selected |-> ocr_choice.selected,
                backend_requested |-> ocr_choice.requested,
                backend_fallback_used |-> ocr_choice.fallback_used,
                backend_reason |-> ocr_choice.reason,
                error |-> "", pairs |-> << >>, text_preview |-> << >>,
                confidence_avg |-> 0, low_confidence_pairs |-> 0]
       IN  ocr' = locals(choose_ocr_backend(args.requested_scanned_ocr_backend,
                                            available_ocr))
    /\ pc' = "ocr"
    /\ UNCHANGED <<pdf, args, available, available_ocr, fingerprint, fingerprint_errors,
                   backend_choice, selected_backend, attempts, attempt, extraction,
                   extraction_error, used_backend, payload, executed, arg, ret>>

\* A variant of Route that detects a scan from the number of raw pairs,
\* before the removal of duplicates: what C26 must tell apart from Route.
RouteOnRawPairs ==
    /\ pc = "route"
    /\ deduped_pairs' = dedupe_pairs(extraction.pairs, args.max_pairs)
    /\ scan_route' = [some |-> TRUE]
           @@ should_route_to_scanned_ocr(fingerprint, Len(extraction.pairs),
                                          args.scanned_ocr_min_chars_per_page,
                                          args.scanned_ocr_min_lines_per_page)
    /\ LET locals(ocr_choice) ==
               [some |-> TRUE, attempted |-> FALSE,
                backend_selected |-> ocr_choice.selected,
                backend_requested |-> ocr_choice.requested,
                backend_fallback_used |-> ocr_choice.fallback_used,
                backend_reason |-> ocr_choice.reason,
                error |-> "", pairs |-> << >>, text_preview |-> << >>,
                confidence_avg |-> 0, low_confidence_pairs |-> 0]
       IN  ocr' = locals(choose_ocr_backend(args.requested_scanned_ocr_backend,
                                            available_ocr))
    /\ pc' = "ocr"
    /\ UNCHANGED <<pdf, args, available, available_ocr, fingerprint, fingerprint_errors,
                   backend_choice, selected_backend, attempts, attempt, extraction,
                   extraction_error, used_backend, payload, executed, arg, ret>>


\* Lines 1018-1046: dedup, scanned-document detection, the OCR backend
\* choice and the initial values of the ocr_* locals.
Route ==
    /\ pc = "route"
    /\ deduped_pairs' = dedupe_pairs(extraction.pairs, args.max_pairs)
    /\ scan_route' = [some |-> TRUE]
           @@ should_route_to_scanned_ocr(fingerprint, Len(deduped_pairs'),
                                          args.scanned_ocr_min_chars_per_page,
                                          args.scanned_ocr_min_lines_per_page)
    /\ LET locals(ocr_choice) ==
               [some |-> TRUE, attempted |-> FALSE,
                backend_selected |-> ocr_choice.selected,
                backend_requested |-> ocr_choice.requested,
                backend_fallback_used |-> ocr_choice.fallback_used,
                backend_reason |-> ocr_choice.reason,
                error |-> "", pairs |-> << >>, text_preview |-> << >>,
                confidence_avg |-> 0, low_confidence_pairs |-> 0]
       IN  ocr' = locals(choose_ocr_backend(args.requested_scanned_ocr_backend,
                                            available_ocr))
    /\ pc' = "ocr"
    /\ UNCHANGED <<pdf, args, available, available_ocr, fingerprint, fingerprint_errors,
                   backend_choice, selected_backend, attempts, attempt, extraction,
                   extraction_error, used_backend, payload, executed, arg, ret>>

\* A variant of SuccessErrors that leaves the OCR error out: what C4 must
\* tell apart from SuccessErrors.
SuccessErrorsWithoutOcr(o) ==
    fingerprint_errors \o (IF extraction_error # "" THEN <<extraction_error>> ELSE << >>)

\* Lines 1127-1133: errors starts as fingerprint_errors; extraction_error
\* and the prefixed ocr_error are appended when they are not empty.
SuccessErrors(o) ==
    fingerprint_errors
      \o (IF extraction_error # "" THEN <<extraction_error>> ELSE << >>)
      \o (IF o.error # "" THEN <<"scanned_pdf_ocr:" \o o.error>> ELSE << >>)

\* A variant of SuccessPayload whose fallback_used is the one of
\* choose_backend, whatever backend the loop ended with: what C29 must
\* tell apart from SuccessPayload.
SuccessPayloadWithFallbackOfChoice(o) ==
    LET split == split_pairs_by_surface(deduped_pairs)
        ocr_split == split_pairs_by_surface(o.pairs)
        fallback_used == backend_choice.fallback_used
    IN  [ok |-> TRUE,
         backend |-> [requested |-> args.requested_backend, selected |-> used_backend,
                      fallback_used |-> fallback_used, reason |-> backend_choice.reason,
                      attempts |-> attempts, available |-> available],
         pairs |-> deduped_pairs, kv_pairs |-> split.kv_pairs, table_pairs |-> split.table_pairs,
         ocr_pairs |-> o.pairs, ocr_kv_pairs |-> ocr_split.kv_pairs,
         ocr_table_pairs |-> ocr_split.table_pairs,
         ocr_text_preview |-> o.text_preview,
         text_preview |-> Prefix(normalize(extraction.text_preview),
                                 args.max_text_preview_chars),
         pages |-> extraction.pages,
         meta |-> [pages_scanned |-> extraction.meta.pages_scanned,
                   lines_scanned |-> extraction.meta.lines_scanned,
                   tables_found |-> extraction.meta.tables_found,
                   pairs_before_dedupe |-> extraction.meta.pairs_before_dedupe,
                   pairs_after_dedupe |-> Len(deduped_pairs),
                   kv_pairs_count |-> Len(split.kv_pairs),
                   table_pairs_count |-> Len(split.table_pairs),
                   backend_requested |-> args.requested_backend,
                   backend_selected |-> used_backend,
                   backend_fallback_used |-> fallback_used,
                   backend_reason |-> backend_choice.reason,
                   pdf_fingerprint |-> fingerprint,
                   scanned_pdf_detected |-> scan_route.scanned_pdf_detected,
                   scanned_pdf_chars_per_page |-> scan_route.chars_per_page,
                   scanned_pdf_lines_per_page |-> scan_route.lines_per_page,
                   scanned_pdf_ocr_enabled |-> args.enable_scanned_ocr,
                   scanned_pdf_ocr_attempted |-> o.attempted,
                   scanned_pdf_ocr_backend_requested |-> o.backend_requested,
                   scanned_pdf_ocr_backend_selected |-> o.backend_selected,
                   scanned_pdf_ocr_backend_fallback_used |-> o.backend_fallback_used,
                   scanned_pdf_ocr_backend_reason |-> o.backend_reason,
                   scanned_pdf_ocr_pair_count |-> Len(o.pairs),
                   scanned_pdf_ocr_confidence_avg |-> o.confidence_avg,
                   scanned_pdf_ocr_low_confidence_pairs |-> o.low_confidence_pairs,
                   scanned_pdf_ocr_error |-> o.error],
         errors |-> SuccessErrors(o)]

\* Lines 1079-1126: the envelope of a run with an extraction, for the final
\* values o of the ocr_* locals.
SuccessPayload(o) ==
    LET split == split_pairs_by_surface(deduped_pairs)
        ocr_split == split_pairs_by_surface(o.pairs)
        fallback_used == backend_choice.fallback_used \/ used_backend # selected_backend
    IN  [ok |-> TRUE,
         backend |-> [requested |-> args.requested_backend, selected |-> used_backend,
                      fallback_used |-> fallback_used, reason |-> backend_choice.reason,
                      attempts |-> attempts, available |-> available],
         pairs |-> deduped_pairs, kv_pairs |-> split.kv_pairs, table_pairs |-> split.table_pairs,
         ocr_pairs |-> o.pairs, ocr_kv_pairs |-> ocr_split.kv_pairs,
         ocr_table_pairs |-> ocr_split.table_pairs,
         ocr_text_preview |-> o.text_preview,
         text_preview |-> Prefix(normalize(extraction.text_preview),
                                 args.max_text_preview_chars),
         pages |-> extraction.pages,
         meta |-> [pages_scanned |-> extraction.meta.pages_scanned,
                   lines_scanned |-> extraction.meta.lines_scanned,
                   tables_found |-> extraction.meta.tables_found,
                   pairs_before_dedupe |-> extraction.meta.pairs_before_dedupe,
                   pairs_after_dedupe |-> Len(deduped_pairs),
                   kv_pairs_count |-> Len(split.kv_pairs),
                   table_pairs_count |-> Len(split.table_pairs),
                   backend_requested |-> args.requested_backend,
                   backend_selected |-> used_backend,
                   backend_fallback_used |-> fallback_used,
                   backend_reason |-> backend_choice.reason,
                   pdf_fingerprint |-> fingerprint,
                   scanned_pdf_detected |-> scan_route.scanned_pdf_detected,
                   scanned_pdf_chars_per_page |-> scan_route.chars_per_page,
                   scanned_pdf_lines_per_page |-> scan_route.lines_per_page,
                   scanned_pdf_ocr_enabled |-> args.enable_scanned_ocr,
                   scanned_pdf_ocr_attempted |-> o.attempted,
                   scanned_pdf_ocr_backend_requested |-> o.backend_requested,
                   scanned_pdf_ocr_backend_selected |-> o.backend_selected,
                   scanned_pdf_ocr_backend_fallback_used |-> o.backend_fallback_used,
                   scanned_pdf_ocr_backend_reason |-> o.backend_reason,
                   scanned_pdf_ocr_pair_count |-> Len(o.pairs),
                   scanned_pdf_ocr_confidence_avg |-> o.confidence_avg,
                   scanned_pdf_ocr_low_confidence_pairs |-> o.low_confidence_pairs,
                   scanned_pdf_ocr_error |-> o.error],
         errors |-> SuccessErrors(o)]

\* A variant of OcrWanted that does not ask whether the caller enabled
\* scanned OCR: what C10 must tell apart from OcrWanted.
OcrWantedWithoutOptIn == scan_route.scanned_pdf_detected

\* Line 1047: whether the OCR branch is entered.
OcrWanted == args.enable_scanned_ocr /\ scan_route.scanned_pdf_detected

\* A variant of OcrEntered that puts tesseract in the place of paddleocr
\* without reporting it: what C18 must tell apart from OcrEntered.
OcrEnteredUnreported ==
    LET entered == [ocr EXCEPT !.attempted = TRUE]
    IN  IF ocr.backend_selected # "paddleocr" THEN entered
        ELSE IF IsAvailable(available_ocr, "tesseract")
          THEN [entered EXCEPT !.backend_selected = "tesseract"]
          ELSE [entered EXCEPT !.error = "paddleocr_not_implemented"]

\* Lines 1048-1055: the OCR locals once the branch is entered and the
\* engine that is not implemented (paddleocr) has been replaced, or not.
OcrEntered ==
    LET entered == [ocr EXCEPT !.attempted = TRUE]
    IN  IF ocr.backend_selected # "paddleocr" THEN entered
        ELSE IF IsAvailable(available_ocr, "tesseract")
          THEN [entered EXCEPT !.backend_selected = "tesseract",
                               !.backend_fallback_used = TRUE,
                               !.backend_reason = "paddleocr_not_implemented_fallback_tesseract"]
          ELSE [entered EXCEPT !.error = "paddleocr_not_implemented"]

\* A variant of Finish that drops the primary records when the OCR locals
\* carry an error: what C11 must tell apart from Finish.
FinishDroppingPrimaryOnOcrError(o) ==
    /\ ocr' = o
    /\ payload' = [some |-> TRUE]
           @@ [SuccessPayload(o) EXCEPT !.pairs = IF o.error # "" THEN << >> ELSE @]
    /\ pc' = "done"
    /\ UNCHANGED <<pdf, args, available, available_ocr, fingerprint, fingerprint_errors,
                   backend_choice, selected_backend, attempts, attempt, extraction,
                   extraction_error, used_backend, deduped_pairs, scan_route, arg, ret>>

\* Lines 1079-1135: the envelope is built from the locals and written.
Finish(o) ==
    /\ ocr' = o
    /\ payload' = [some |-> TRUE] @@ SuccessPayload(o)
    /\ pc' = "done"
    /\ UNCHANGED <<pdf, args, available, available_ocr, fingerprint, fingerprint_errors,
                   backend_choice, selected_backend, attempts, attempt, extraction,
                   extraction_error, used_backend, deduped_pairs, scan_route, arg, ret>>

\* The OCR branch is not entered; the envelope is written.
OcrNotAttempted ==
    /\ pc = "ocr"
    /\ ~OcrWanted
    /\ executed' = executed
    /\ Finish(ocr)

\* Lines 1056-1057 and 1076-1077: the branch is entered and no engine that
\* can run is selected.
OcrNoEngine ==
    /\ pc = "ocr"
    /\ OcrWanted
    /\ OcrEntered.backend_selected # "tesseract"
    /\ executed' = executed
    /\ LET locals(entered) ==
               [entered EXCEPT
                  !.error = IF entered.error # "" THEN entered.error
                            ELSE IF entered.backend_selected = "none"
                              THEN "ocr_backend_unavailable"
                            ELSE "unsupported_ocr_backend:" \o entered.backend_selected]
       IN  Finish(locals(OcrEntered))

\* Lines 1058-1073: tesseract runs and returns.
OcrReturns ==
    /\ pc = "ocr"
    /\ OcrWanted
    /\ OcrEntered.backend_selected = "tesseract"
    /\ executed' = Append(executed, "tesseract")
    /\ LET locals(ocr_extraction) ==
               [OcrEntered EXCEPT
                  !.pairs = dedupe_pairs(ocr_extraction.pairs, args.scanned_ocr_max_pairs),
                  !.text_preview = Prefix(normalize(ocr_extraction.text_preview),
                                          args.max_text_preview_chars),
                  !.confidence_avg = ocr_extraction.meta.ocr_confidence_avg,
                  !.low_confidence_pairs = ocr_extraction.meta.ocr_low_confidence_pairs]
       IN  Finish(locals(extract_with_tesseract_ocr(Document(pdf),
                                                    args.scanned_ocr_max_pages,
                                                    args.scanned_ocr_max_pairs,
                                                    args.max_text_preview_chars,
                                                    args.scanned_ocr_min_confidence)))

\* Lines 1074-1075: tesseract raises.
OcrRaises ==
    /\ pc = "ocr"
    /\ OcrWanted
    /\ OcrEntered.backend_selected = "tesseract"
    /\ executed' = Append(executed, "tesseract")
    /\ \E exc \in ExceptionTexts("tesseract") : Finish([OcrEntered EXCEPT !.error = exc])

Next ==
    \/ FingerprintReturns
    \/ FingerprintRaises
    \/ FingerprintSkipped
    \/ Choose
    \/ AttemptReturns
    \/ AttemptRaises
    \/ AttemptNoAdapter
    \/ NoExtraction
    \/ Route
    \/ OcrNotAttempted
    \/ OcrNoEngine
    \/ OcrReturns
    \/ OcrRaises

Spec == Init /\ [][Next]_vars

(***************************************************************************)
(* Runs on the long documents                                               *)
(***************************************************************************)

\* A --max-pairs and --scanned-ocr-max-pairs below the smallest values
\* main() accepts.
SmallMaxPairs == 1

\* SpecBulk: runs on the long documents with the pair limits at their
\* smallest, --backend auto, every set of installed PDF libraries.
InitBulk ==
    InitRun(BulkDocuments, {"auto"}, [Backends -> BOOLEAN], BOOLEAN, {"auto"},
            TesseractOrNothing, {SmallMaxPairs}, {SmallMaxPairs})

SpecBulk == InitBulk /\ [][Next]_vars

\* SpecOcr: runs of the small documents with --backend auto, for every
\* --scanned-ocr-backend and every set of installed PDF libraries and OCR
\* engines.
InitOcr ==
    InitRun(LightDocuments, {"auto"}, [Backends -> BOOLEAN], BOOLEAN, OcrBackendArgs,
            [OcrBackends -> BOOLEAN], {DefaultMaxPairs}, {DefaultOcrMaxPairs})

SpecOcr == InitOcr /\ [][Next]_vars

(***************************************************************************)
(* The pipeline run twice on the same document                              *)
(***************************************************************************)

\* The command is run a second time on the same file with the same options
\* in the same installation: main() starts again with fresh locals.  ret
\* keeps what the first run chose, met and wrote.
Rerun ==
    /\ pc = "done"
    /\ ~ret.some
    /\ ret' = [some |-> TRUE, payload |-> payload, backend_choice |-> backend_choice,
               attempts |-> attempts, fingerprint_errors |-> fingerprint_errors,
               executed |-> executed, extraction_error |-> extraction_error]
    /\ pc' = "fingerprint"
    /\ fingerprint' = ZeroFingerprint
    /\ fingerprint_errors' = << >>
    /\ backend_choice' = NoChoice
    /\ selected_backend' = ""
    /\ attempts' = << >>
    /\ attempt' = 0
    /\ extraction' = None
    /\ extraction_error' = ""
    /\ used_backend' = ""
    /\ deduped_pairs' = << >>
    /\ scan_route' = None
    /\ ocr' = None
    /\ payload' = None
    /\ executed' = << >>
    /\ UNCHANGED <<pdf, args, available, available_ocr, arg>>

\* SpecTwice: two runs in a row on a small document, with scanned OCR
\* enabled, --backend auto or camelot, every set of installed PDF libraries.
InitTwice ==
    InitRun({"product", "scan", "tables"}, {"auto", "camelot"}, [Backends -> BOOLEAN], {TRUE},
            {"auto"}, TesseractOrNothing, {DefaultMaxPairs}, {DefaultOcrMaxPairs})

NextTwice == Next \/ Rerun

SpecTwice == InitTwice /\ [][NextTwice]_vars

(***************************************************************************)
(* The selection functions on their own: arg is drawn from the values the   *)
(* pipeline can pass, one call gives ret.                                   *)
(***************************************************************************)

\* No run of main() is under way.
NoRun ==
    /\ pdf = "empty"
    /\ args = ClampedArgs("auto", DefaultMaxPairs, FALSE, "auto", DefaultOcrMaxPairs)
    /\ available = [b \in Backends |-> FALSE]
    /\ available_ocr = [b \in OcrBackends |-> FALSE]
    /\ pc = "call"
    /\ NotStarted
    /\ ret = None

\* The largest page and table counts of the fingerprints choose_backend is
\* called with.
MaxFpPages == 20

MaxFpTables == 8

\* The fingerprints main() can hold when it calls choose_backend: the zero
\* fingerprint, pymupdf's (no table count), pdfplumber's.
ChooseFingerprints ==
    {MakeFingerprint([pages_scanned |-> p, tables_found |-> t, lines_scanned |-> 0,
                      text_chars |-> 0],
                     IF p > 0 THEN RoundScaled(t, p, Micro) ELSE 0) :
       p \in 0..MaxFpPages, t \in 0..MaxFpTables}

InitChoose ==
    /\ NoRun
    /\ arg \in [requested_backend : BackendArgs, available : [Backends -> BOOLEAN],
                 fingerprint : ChooseFingerprints]

\* Line 929: main's call of choose_backend.
CallChooseBackend ==
    /\ pc = "call"
    /\ ret' = [some |-> TRUE]
           @@ choose_backend(normalize_backend(arg.requested_backend), arg.available,
                             arg.fingerprint)
    /\ pc' = "returned"
    /\ UNCHANGED <<pdf, args, available, available_ocr, fingerprint, fingerprint_errors,
                   backend_choice, selected_backend, attempts, attempt, extraction,
                   extraction_error, used_backend, deduped_pairs, scan_route, ocr, payload,
                   executed, arg>>

SpecChoose == InitChoose /\ [][CallChooseBackend]_vars

\* The longest line parse_line_pair is called with.
MaxLineLen == 5

\* The characters of those lines: a letter, the characters the separators
\* are made of, a blank and a tab.
LineChars == {"a", ":", "-", "=", " ", "\t"}

Lines == UNION {[1..n -> LineChars] : n \in 0..MaxLineLen}

InitParse ==
    /\ NoRun
    /\ arg \in [line : Lines]

\* Line 184: extract_pairs_from_text's call of parse_line_pair.
CallParseLinePair ==
    /\ pc = "call"
    /\ ret' = [some |-> TRUE, pair |-> parse_line_pair(arg.line)]
    /\ pc' = "returned"
    /\ UNCHANGED <<pdf, args, available, available_ocr, fingerprint, fingerprint_errors,
                   backend_choice, selected_backend, attempts, attempt, extraction,
                   extraction_error, used_backend, deduped_pairs, scan_route, ocr, payload,
                   executed, arg>>

SpecParse == InitParse /\ [][CallParseLinePair]_vars

\* The widest row of the tables extract_pairs_from_table is called with.
MaxCells == 3

\* The cells of those rows: blank, one character, two characters, and two
\* words two blanks apart.
Cells == {<<" ">>, <<"x">>, <<"a", "b">>, <<"c", " ", " ", "d">>}

TableRows == UNION {[1..n -> Cells] : n \in 0..MaxCells}

\* The row of scenario B.
SensorRow ==
    <<<<"S", "e", "n", "s", "o", "r">>, <<"P", "A", "W", "3", "3", "9", "5">>,
      <<"O", "p", "t", "i", "c", "a", "l">>>>

\* A table of one row more than the smallest max_pairs: k1 | v, k2 | v, ...
LongTable == [i \in 1..(MinMaxPairs + 1) |-> <<<<"k">> \o Decimal(i), <<"v">>>>]

\* Tables of no row, of one row and of two rows, and the long one.
Tables ==
    {<< >>, <<SensorRow>>, LongTable} \cup {<<row>> : row \in TableRows}
      \cup {<<first, second>> : first \in TableRows, second \in TableRows}

\* The table is the n-th of page page_number; limit is main's max_pairs,
\* at its smallest for a first table and at its default for a later one.
InitTable ==
    /\ NoRun
    /\ arg \in [table : Tables, limit : {MinMaxPairs}, page_number : {1}, n : {1},
                 start_index : {0}]
               \cup [table : {<<SensorRow>>, LongTable}, limit : {DefaultMaxPairs},
                     page_number : {2}, n : {3}, start_index : {7}]

\* Lines 668-675: extract_with_pdfplumber's call of extract_pairs_from_table.
CallExtractPairsFromTable ==
    /\ pc = "call"
    /\ ret' = [some |-> TRUE]
           @@ extract_pairs_from_table(arg.table, arg.limit, arg.page_number, "pdfplumber",
                                       <<arg.page_number, arg.n>>, arg.start_index)
    /\ pc' = "returned"
    /\ UNCHANGED <<pdf, args, available, available_ocr, fingerprint, fingerprint_errors,
                   backend_choice, selected_backend, attempts, attempt, extraction,
                   extraction_error, used_backend, deduped_pairs, scan_route, ocr, payload,
                   executed, arg>>

SpecTable == InitTable /\ [][CallExtractPairsFromTable]_vars

\* The longest list of records dedupe_pairs is called with, the long list
\* aside.
MaxDedupeLen == 4

\* Keys and values that differ in case and in whitespace only, and others.
DedupeKeys == {<<"a", " ", "b">>, <<"A", " ", " ", "b">>, <<"c", "d">>}

DedupeValues == {<<"v">>, <<"V">>, <<"w">>}

\* The records an adapter builds from the valid pairs kvs of a page, in
\* order.
RecordsOf(kvs) ==
    [i \in 1..Len(kvs) |->
       build_pair_record(kvs[i][1], kvs[i][2], 1, "pdf_kv", "pdfplumber", i, NoTable,
                         NoConfidence, FALSE)]

\* Twice as many records as the smallest limit and two more: k1: v, K1: v,
\* k2: v, K2: v, ...
LongPairs ==
    RecordsOf([i \in 1..(2 * (MinOcrMaxPairs + 1)) |->
                 <<<<IF i % 2 = 1 THEN "k" ELSE "K">> \o Decimal((i + 1) \div 2), <<"v">>>>])

InitDedupe ==
    /\ NoRun
    /\ arg \in {[pairs |-> RecordsOf(kvs), limit |-> MinMaxPairs] :
                  kvs \in UNION {[1..n -> DedupeKeys \X DedupeValues] : n \in 0..MaxDedupeLen}}
               \cup {[pairs |-> LongPairs, limit |-> MinOcrMaxPairs]}

\* Lines 1019 and 1068: main's calls of dedupe_pairs.
CallDedupePairs ==
    /\ pc = "call"
    /\ ret' = [some |-> TRUE, out |-> dedupe_pairs(arg.pairs, arg.limit)]
    /\ pc' = "returned"
    /\ UNCHANGED <<pdf, args, available, available_ocr, fingerprint, fingerprint_errors,
                   backend_choice, selected_backend, attempts, attempt, extraction,
                   extraction_error, used_backend, deduped_pairs, scan_route, ocr, payload,
                   executed, arg>>

SpecDedupe == InitDedupe /\ [][CallDedupePairs]_vars

(***************************************************************************)
(* The document handle of a routine: opened, used, closed                   *)
(***************************************************************************)

\* The routines that open the document themselves: by "with
\* pdfplumber.open(...)" (lines 287, 632) or by fitz.open(...) followed by
\* try ... finally: doc.close() (lines 319-330, 521-588, 718-750).
HandleRoutines ==
    {"fingerprint_with_pdfplumber", "fingerprint_with_pymupdf", "extract_with_pdfplumber",
     "extract_with_pymupdf", "extract_with_tesseract_ocr"}

\* One call of one of the routines on one of the small documents.
InitHandles ==
    /\ NoRun
    /\ arg \in [routine : HandleRoutines, pdf : LightDocuments]

\* Whether the body of the routine raises on the document of its own
\* accord: a page whose text cannot be read.
BodyRaisesOn(routine, document) ==
    CASE routine \in {"fingerprint_with_pdfplumber", "fingerprint_with_pymupdf"} ->
           fingerprint_raises(document, args.max_pages)
      [] routine = "extract_with_pdfplumber" ->
           extract_with_pdfplumber(document, args.max_pages, args.max_pairs,
                                   args.max_text_preview_chars).raised
      [] routine = "extract_with_pymupdf" ->
           extract_with_pymupdf(document, args.max_pages, args.max_pairs,
                                args.max_text_preview_chars).raised
      [] routine = "extract_with_tesseract_ocr" -> FALSE

\* pdfplumber.open / fitz.open returns: the routine holds a handle.
OpenReturns ==
    /\ pc = "call"
    /\ ret' = [some |-> TRUE, handle |-> "open", exc |-> None]
    /\ pc' = "opened"
    /\ UNCHANGED <<pdf, args, available, available_ocr, fingerprint, fingerprint_errors,
                   backend_choice, selected_backend, attempts, attempt, extraction,
                   extraction_error, used_backend, deduped_pairs, scan_route, ocr, payload,
                   executed, arg>>

\* pdfplumber.open / fitz.open raises: there is no handle, and the
\* exception leaves the routine.
OpenRaises ==
    /\ pc = "call"
    /\ \E text \in ExceptionTexts(arg.routine) :
         ret' = [some |-> TRUE, handle |-> "none", exc |-> [some |-> TRUE, text |-> text]]
    /\ pc' = "propagated"
    /\ UNCHANGED <<pdf, args, available, available_ocr, fingerprint, fingerprint_errors,
                   backend_choice, selected_backend, attempts, attempt, extraction,
                   extraction_error, used_backend, deduped_pairs, scan_route, ocr, payload,
                   executed, arg>>

\* The loop over the pages ends, by exhaustion or by its break: control
\* leaves the with block or enters the finally clause.
BodyReturns ==
    /\ pc = "opened"
    /\ ~BodyRaisesOn(arg.routine, Document(arg.pdf))
    /\ pc' = "closing"
    /\ UNCHANGED <<pdf, args, available, available_ocr, fingerprint, fingerprint_errors,
                   backend_choice, selected_backend, attempts, attempt, extraction,
                   extraction_error, used_backend, deduped_pairs, scan_route, ocr, payload,
                   executed, arg, ret>>

\* A call inside the loop raises: control leaves the with block or enters
\* the finally clause with the exception pending.
BodyRaises ==
    /\ pc = "opened"
    /\ \E text \in ExceptionTexts(arg.routine) :
         ret' = [ret EXCEPT !.exc = [some |-> TRUE, text |-> text]]
    /\ pc' = "closing"
    /\ UNCHANGED <<pdf, args, available, available_ocr, fingerprint, fingerprint_errors,
                   backend_choice, selected_backend, attempts, attempt, extraction,
                   extraction_error, used_backend, deduped_pairs, scan_route, ocr, payload,
                   executed, arg>>

\* A variant of CloseHandle that closes the document after the loop
\* instead of in a finally clause: what C27 must tell apart from
\* CloseHandle.
CloseHandleAfterLoopOnly ==
    /\ pc = "closing"
    /\ ret' = [ret EXCEPT !.handle = IF ret.exc.some THEN @ ELSE "closed"]
    /\ pc' = IF ret.exc.some THEN "propagated" ELSE "returned"
    /\ UNCHANGED <<pdf, args, available, available_ocr, fingerprint, fingerprint_errors,
                   backend_choice, selected_backend, attempts, attempt, extraction,
                   extraction_error, used_backend, deduped_pairs, scan_route, ocr, payload,
                   executed, arg>>

\* The exit of the with block (lines 287, 632) or the finally clause
\* (lines 329-330, 587-588, 749-750): the handle is closed, then the
\* routine goes on to its return or the pending exception leaves it.
CloseHandle ==
    /\ pc = "closing"
    /\ ret' = [ret EXCEPT !.handle = "closed"]
    /\ pc' = IF ret.exc.some THEN "propagated" ELSE "returned"
    /\ UNCHANGED <<pdf, args, available, available_ocr, fingerprint, fingerprint_errors,
                   backend_choice, selected_backend, attempts, attempt, extraction,
                   extraction_error, used_backend, deduped_pairs, scan_route, ocr, payload,
                   executed, arg>>

SpecHandles ==
    InitHandles /\ [][OpenReturns \/ OpenRaises \/ BodyReturns \/ BodyRaises \/ CloseHandle]_vars


(***************************************************************************)
(* fetch_eloshapes_supabase.py: fetch_page_with_retry                       *)
(***************************************************************************)

\* The largest --max-retries fetch_page_with_retry is called with.
MaxRetries == 3

\* main's lower clamp of --retry-base-ms and its default, in milliseconds.
MinRetryBaseMs == 10

DefaultRetryBaseMs == 250

\* The floor of the first delay: 0.05 seconds, in milliseconds.
MinDelayMs == 50

\* The --retry-base-ms values checked: the smallest main() passes, the
\* values on both sides of the floor of the delay, and the default.
RetryBases == {MinRetryBaseMs, MinDelayMs - 1, MinDelayMs, DefaultRetryBaseMs}

\* The exceptions of fetch_page_once the except clause of line 94 catches
\* (a JSON or decoding error is a ValueError) ...
RetryableErrors == {"HTTPError", "URLError", "TimeoutError", "ValueError"}

\* ... and two it does not catch.
OtherErrors == {"HTTPException", "OSError"}

\* 2 ** n.
RECURSIVE Pow2(_)
Pow2(n) == IF n = 0 THEN 1 ELSE 2 * Pow2(n - 1)

\* One call of fetch_page_with_retry with the max_retries and
\* retry_base_ms main() can pass (lines 152-153).
InitFetch ==
    /\ NoRun
    /\ arg \in [max_retries : 0..MaxRetries, retry_base_ms : RetryBases]

\* Lines 88-89: delay and attempt before the loop; calls, slept and errors
\* record the calls of fetch_page_once, the sleeps (in milliseconds) and
\* the exceptions caught so far.
FetchEnter ==
    /\ pc = "call"
    /\ ret' = [some |-> TRUE, delay |-> Max(MinDelayMs, arg.retry_base_ms), attempt |-> 0,
               calls |-> 0, slept |-> << >>, errors |-> << >>, raised |-> ""]
    /\ pc' = "fetching"
    /\ UNCHANGED <<pdf, args, available, available_ocr, fingerprint, fingerprint_errors,
                   backend_choice, selected_backend, attempts, attempt, extraction,
                   extraction_error, used_backend, deduped_pairs, scan_route, ocr, payload,
                   executed, arg>>

\* Line 93: fetch_page_once returns, and so does fetch_page_with_retry.
FetchReturns ==
    /\ pc = "fetching"
    /\ ret' = [ret EXCEPT !.calls = @ + 1]
    /\ pc' = "returned"
    /\ UNCHANGED <<pdf, args, available, available_ocr, fingerprint, fingerprint_errors,
                   backend_choice, selected_backend, attempts, attempt, extraction,
                   extraction_error, used_backend, deduped_pairs, scan_route, ocr, payload,
                   executed, arg>>

\* A variant of FetchRetry that does not count the attempt: what C30 must
\* tell apart from FetchRetry.
FetchRetryUncounted ==
    /\ pc = "fetching"
    /\ ret.attempt < arg.max_retries
    /\ \E exc \in RetryableErrors :
         ret' = [ret EXCEPT !.calls = @ + 1,
                            !.slept = Append(@, ret.delay * Pow2(ret.attempt)),
                            !.errors = Append(@, exc)]
    /\ UNCHANGED <<pdf, args, available, available_ocr, pc, fingerprint, fingerprint_errors,
                   backend_choice, selected_backend, attempts, attempt, extraction,
                   extraction_error, used_backend, deduped_pairs, scan_route, ocr, payload,
                   executed, arg>>

\* Lines 94-104: fetch_page_once raises one of the caught exceptions while
\* attempt < max_retries: the attempt is counted, the loop sleeps
\* delay * 2 ** (attempt - 1) and calls again.
FetchRetry ==
    /\ pc = "fetching"
    /\ ret.attempt < arg.max_retries
    /\ \E exc \in RetryableErrors :
         ret' = [ret EXCEPT !.calls = @ + 1,
                            !.attempt = @ + 1,
                            !.slept = Append(@, ret.delay * Pow2(ret.attempt)),
                            !.errors = Append(@, exc)]
    /\ UNCHANGED <<pdf, args, available, available_ocr, pc, fingerprint, fingerprint_errors,
                   backend_choice, selected_backend, attempts, attempt, extraction,
                   extraction_error, used_backend, deduped_pairs, scan_route, ocr, payload,
                   executed, arg>>

\* Lines 94-96: fetch_page_once raises one of the caught exceptions when
\* attempt >= max_retries: the exception is raised again.
FetchGivesUp ==
    /\ pc = "fetching"
    /\ ret.attempt >= arg.max_retries
    /\ \E exc \in RetryableErrors :
         ret' = [ret EXCEPT !.calls = @ + 1, !.errors = Append(@, exc), !.raised = exc]
    /\ pc' = "propagated"
    /\ UNCHANGED <<pdf, args, available, available_ocr, fingerprint, fingerprint_errors,
                   backend_choice, selected_backend, attempts, attempt, extraction,
                   extraction_error, used_backend, deduped_pairs, scan_route, ocr, payload,
                   executed, arg>>

\* Line 93: fetch_page_once raises an exception the except clause does not
\* catch: it leaves fetch_page_with_retry at once.
FetchRaisesOther ==
    /\ pc = "fetching"
    /\ \E exc \in OtherErrors :
         ret' = [ret EXCEPT !.calls = @ + 1, !.errors = Append(@, exc), !.raised = exc]
    /\ pc' = "propagated"
    /\ UNCHANGED <<pdf, args, available, available_ocr, fingerprint, fingerprint_errors,
                   backend_choice, selected_backend, attempts, attempt, extraction,
                   extraction_error, used_backend, deduped_pairs, scan_route, ocr, payload,
                   executed, arg>>

SpecFetch ==
    InitFetch
      /\ [][FetchEnter \/ FetchReturns \/ FetchRetry \/ FetchGivesUp \/ FetchRaisesOther]_vars


\* The largest page count and pair yield should_route_to_scanned_ocr is
\* called with.
MaxRoutePages == 5

MaxRoutePairs == 11

\* Characters and lines per page the fingerprints are built from, and the
\* --scanned-ocr-min-chars-per-page / --scanned-ocr-min-lines-per-page
\* pairs of the command line.
RouteCharsPerPage == {0, 2, DefaultMinCharsPerPage, 500}

RouteLinesPerPage == {0, 1, DefaultMinLinesPerPage, 20}

RouteThresholds ==
    {<<DefaultMinCharsPerPage, DefaultMinLinesPerPage>>, <<0, 0>>, <<-1, -1>>, <<500, 20>>}

\* Fingerprints of p pages whose text is at, or one character or line
\* above, a whole number per page.
RouteFingerprints ==
    {MakeFingerprint([pages_scanned |-> p, tables_found |-> 0,
                      lines_scanned |-> l * Max(1, p) + dl,
                      text_chars |-> c * Max(1, p) + dc], 0) :
       p \in 0..MaxRoutePages, c \in RouteCharsPerPage, dc \in {0, 1},
       l \in RouteLinesPerPage, dl \in {0, 1}}

\* The thresholds are clamped as main() clamps them (lines 901-902).
InitRoute ==
    /\ NoRun
    /\ \E fp \in RouteFingerprints, n \in 0..MaxRoutePairs, t \in RouteThresholds :
         arg = [fingerprint |-> fp, pairs_after_dedupe |-> n,
                min_chars_per_page |-> Max(0, t[1]), min_lines_per_page |-> Max(0, t[2])]

\* Lines 1027-1032: main's call of should_route_to_scanned_ocr.
CallShouldRoute ==
    /\ pc = "call"
    /\ ret' = [some |-> TRUE]
           @@ should_route_to_scanned_ocr(arg.fingerprint, arg.pairs_after_dedupe,
                                          arg.min_chars_per_page, arg.min_lines_per_page)
    /\ pc' = "returned"
    /\ UNCHANGED <<pdf, args, available, available_ocr, fingerprint, fingerprint_errors,
                   backend_choice, selected_backend, attempts, attempt, extraction,
                   extraction_error, used_backend, deduped_pairs, scan_route, ocr, payload,
                   executed, arg>>

SpecRoute == InitRoute /\ [][CallShouldRoute]_vars

(***************************************************************************)
(* Properties                                                               *)
(***************************************************************************)

Range(seq) == {seq[i] : i \in 1..Len(seq)}

\* The run has written its envelope.
Written == pc = "done" /\ payload.some

\* A record of the output within the bounds of a valid pair.
RecordWithinBounds(record) ==
    /\ Len(record.key) >= 2 /\ Len(record.key) <= 160
    /\ Len(record.value) >= 1 /\ Len(record.value) <= 1200
    /\ \E i \in 1..Len(record.key) : record.key[i] \in Alnum
    /\ \E i \in 1..Len(record.value) : record.value[i] \in Alnum

\* C1: in every run that writes an envelope, pairs has at most max_pairs
\* records (max_pairs as main() clamps it) and no two of them have the same
\* lower-cased, whitespace-collapsed (normalized_key, normalized_value).
C1_PairsCappedAndUnique ==
    Written =>
      /\ Len(payload.pairs) <= args.max_pairs
      /\ Cardinality({Signature(payload.pairs[i]) : i \in 1..Len(payload.pairs)})
           = Len(payload.pairs)

\* C1's case: the extraction gave more pairs than max_pairs, duplicates
\* among them, and the envelope holds exactly max_pairs.
C1_Witness ==
    /\ Written
    /\ payload.ok
    /\ extraction.meta.pairs_before_dedupe > args.max_pairs
    /\ Cardinality({Signature(extraction.pairs[i]) : i \in 1..Len(extraction.pairs)})
         < Len(extraction.pairs)
    /\ Len(payload.pairs) = args.max_pairs

\* C2: every record of pairs and of ocr_pairs has a key of 2..160
\* characters and a value of 1..1200 characters, each with a letter or a
\* digit; and errors holds nothing but messages of failed stages, so a
\* discarded candidate adds no entry to it.
C2_RecordsWithinBounds ==
    Written =>
      /\ \A i \in 1..Len(payload.pairs) : RecordWithinBounds(payload.pairs[i])
      /\ \A i \in 1..Len(payload.ocr_pairs) : RecordWithinBounds(payload.ocr_pairs[i])
      /\ Range(payload.errors) \subseteq
           Range(fingerprint_errors) \cup {extraction_error}
             \cup (IF ocr.some THEN {"scanned_pdf_ocr:" \o ocr.error} ELSE {})

\* C2's case: the page at the length bounds was read by pdfplumber with no
\* stage failing; the records at the bounds are in the output, the
\* candidates beyond them are not, and errors is empty.
C2_Witness ==
    /\ Written
    /\ payload.ok
    /\ pdf = "long"
    /\ used_backend = "pdfplumber"
    /\ extraction.meta.lines_scanned = 7
    /\ Len(payload.pairs) = 5
    /\ \E i \in 1..Len(payload.pairs) : Len(payload.pairs[i].key) = 160
    /\ \E i \in 1..Len(payload.pairs) : Len(payload.pairs[i].value) = 1200
    /\ payload.errors = << >>

\* The run ended without an extraction: no backend was available, or every
\* backend that was tried failed.
TotalFailure == Written /\ ~extraction.some

EmptyCollections ==
    /\ payload.pairs = << >> /\ payload.kv_pairs = << >> /\ payload.table_pairs = << >>
    /\ payload.ocr_pairs = << >> /\ payload.ocr_kv_pairs = << >>
    /\ payload.ocr_table_pairs = << >>

\* C3 as the specification states it: a run without extraction writes an
\* envelope with ok true, empty collections and an error string.
C3_AsStated ==
    TotalFailure => payload.ok /\ EmptyCollections /\ payload.error # ""

\* C3: a run without extraction writes an envelope with ok FALSE, empty
\* pair collections and a non-empty error string: the message of the last
\* backend that failed, or "no_pdf_backend_available" when there is none.
C3_TotalFailureEnvelope ==
    /\ (pc = "extract" /\ attempt > Len(attempts) /\ ~extraction.some) => ENABLED NoExtraction
    /\ TotalFailure =>
         /\ ~payload.ok
         /\ EmptyCollections
         /\ payload.error # ""
         /\ payload.error = (IF extraction_error # "" THEN extraction_error
                             ELSE "no_pdf_backend_available")

\* C3's case: every backend that was tried raised, and the envelope
\* carries the last message.
C3_Witness ==
    /\ TotalFailure
    /\ Len(executed) >= 2
    /\ payload.error = extraction_error
    /\ extraction_error # ""

EnvelopeFields ==
    {"pairs", "kv_pairs", "table_pairs", "ocr_pairs", "text_preview", "pages", "meta",
     "errors"}

\* C4 as the specification states it: the message of every failed stage is
\* in errors, also when all backends fail, and the envelope has its fields.
C4_AsStated ==
    Written =>
      /\ EnvelopeFields \subseteq DOMAIN payload
      /\ Range(fingerprint_errors) \subseteq Range(payload.errors)
      /\ extraction_error # "" => extraction_error \in Range(payload.errors)
      /\ (ocr.some /\ ocr.error # "") =>
           ("scanned_pdf_ocr:" \o ocr.error) \in Range(payload.errors)

\* C4: the envelope has its fields, and errors holds, in this order, the
\* fingerprint failure, then - only in a run with an extraction - the
\* message of the last backend that failed if it is not empty, then the OCR
\* error, prefixed, if it is not empty.  When all backends fail the last
\* message is in the error field and not in errors.
C4_ErrorsRecorded ==
    Written =>
      /\ EnvelopeFields \subseteq DOMAIN payload
      /\ payload.errors =
           fingerprint_errors
             \o (IF extraction.some /\ extraction_error # ""
                   THEN <<extraction_error>> ELSE << >>)
             \o (IF extraction.some /\ ocr.some /\ ocr.error # ""
                   THEN <<"scanned_pdf_ocr:" \o ocr.error>> ELSE << >>)
      /\ ~extraction.some =>
           payload.error = (IF extraction_error # "" THEN extraction_error
                            ELSE "no_pdf_backend_available")

\* C4's case: the fingerprint failed, a backend failed before another one
\* succeeded, and the OCR engine failed: three entries.
C4_Witness ==
    /\ Written
    /\ payload.ok
    /\ fingerprint_errors # << >>
    /\ extraction_error # ""
    /\ "tesseract" \in Range(executed)
    /\ ocr.error = "tesseract_error"
    /\ Len(payload.errors) = 3

\* The ranked list as the specification gives it.
RankedAsStated(table_density) ==
    IF table_density >= 350000
      THEN <<"camelot", "pdfplumber", "pymupdf", "tabula">>
      ELSE <<"pdfplumber", "pymupdf", "tabula">>

\* token is the first backend of ranked that is available.
IsFirstAvailable(token, ranked, installed) ==
    \E k \in 1..Len(ranked) :
       /\ ranked[k] = token
       /\ installed[token]
       /\ \A j \in 1..(k - 1) : ~installed[ranked[j]]

SomeAvailable(ranked, installed) == \E k \in 1..Len(ranked) : installed[ranked[k]]

\* choose_backend has returned for a concrete requested backend.
ConcreteRequest == pc = "returned" /\ ret.some /\ arg.requested_backend \in Backends

RequestHonoured ==
    (ConcreteRequest /\ arg.available[arg.requested_backend]) =>
      /\ ret.selected = arg.requested_backend
      /\ ret.reason = "requested_" \o arg.requested_backend
      /\ ~ret.fallback_used

\* C5 as the specification states it: an available requested backend is
\* selected; an unavailable one, when some other backend is available, gives
\* the first available backend of the ranked list, fallback_used and a
\* reason that starts with requested_unavailable_fallback_.
C5_AsStated ==
    /\ RequestHonoured
    /\ (/\ ConcreteRequest
        /\ ~arg.available[arg.requested_backend]
        /\ \E b \in Backends \ {arg.requested_backend} : arg.available[b]) =>
         /\ IsFirstAvailable(ret.selected, RankedAsStated(arg.fingerprint.table_density),
                             arg.available)
         /\ ret.fallback_used
         /\ \E token \in Backends \cup {"legacy"} :
               ret.reason = "requested_unavailable_fallback_" \o token

\* C5: an available requested backend is selected with reason
\* requested_<token> and fallback_used false; an unavailable one gives, with
\* fallback_used true and reason requested_unavailable_fallback_<selected>,
\* the first available backend of the ranked list when that list holds an
\* available backend, and "legacy" when it holds none (camelot, below the
\* table-density threshold, is not in the list).
C5_RequestedBackend ==
    /\ RequestHonoured
    /\ (ConcreteRequest /\ ~arg.available[arg.requested_backend]) =>
         /\ ret.fallback_used
         /\ ret.reason = "requested_unavailable_fallback_" \o ret.selected
         /\ IF SomeAvailable(RankedAsStated(arg.fingerprint.table_density), arg.available)
              THEN IsFirstAvailable(ret.selected,
                                    RankedAsStated(arg.fingerprint.table_density),
                                    arg.available)
              ELSE ret.selected = "legacy"

\* C5's case: the requested backend is missing, the first of the ranked
\* list too, and the second one is taken.
C5_Witness ==
    /\ ConcreteRequest
    /\ arg.requested_backend = "camelot"
    /\ ~arg.available["camelot"] /\ ~arg.available["pdfplumber"] /\ arg.available["pymupdf"]
    /\ ret.selected = "pymupdf"
    /\ ret.fallback_used
    /\ ret.reason = "requested_unavailable_fallback_pymupdf"

\* C6: choose_backend with requested = "legacy" selects "legacy" with
\* fallback_used false, for every availability map and fingerprint.
C6_LegacyUnconditional ==
    (pc = "returned" /\ ret.some /\ arg.requested_backend = "legacy") =>
      ret.selected = "legacy" /\ ~ret.fallback_used

\* C6's case: legacy is requested although every adaptive backend is
\* installed and the document is dense in tables.
C6_Witness ==
    /\ pc = "returned" /\ ret.some
    /\ arg.requested_backend = "legacy"
    /\ \A b \in Backends : arg.available[b]
    /\ arg.fingerprint.table_density >= 350000
    /\ ret.selected = "legacy"
    /\ ret.reason = "requested_legacy"

\* choose_backend has returned for requested = "auto".
AutoRequest == pc = "returned" /\ ret.some /\ normalize_backend(arg.requested_backend) = "auto"

\* C7: with requested = "auto" the first available backend of the ranked
\* list is selected (camelot, pdfplumber, pymupdf, tabula from a table
\* density of 0.35, else pdfplumber, pymupdf, tabula, so never camelot
\* below 0.35); "legacy" with reason auto_no_backend_available when the
\* list holds no available backend; fallback_used is false.
C7_AutoRanked ==
    AutoRequest =>
      /\ ~ret.fallback_used
      /\ IF SomeAvailable(RankedAsStated(arg.fingerprint.table_density), arg.available)
           THEN IsFirstAvailable(ret.selected, RankedAsStated(arg.fingerprint.table_density),
                                 arg.available)
           ELSE ret.selected = "legacy" /\ ret.reason = "auto_no_backend_available"
      /\ arg.fingerprint.table_density < 350000 => ret.selected # "camelot"

\* C7's case: a table density of exactly 0.35 with every backend
\* installed selects camelot.
C7_Witness ==
    /\ AutoRequest
    /\ arg.fingerprint.table_density = 350000
    /\ \A b \in Backends : arg.available[b]
    /\ ret.selected = "camelot"
    /\ ret.reason = "auto_table_dense"

\* The input of should_route_to_scanned_ocr, read as the specification
\* reads it.
RoutePages == IF arg.fingerprint.pages_scanned >= 1 THEN arg.fingerprint.pages_scanned ELSE 1

RouteReturned == pc = "returned" /\ ret.some

DefaultThresholds == arg.min_chars_per_page = 45 /\ arg.min_lines_per_page = 3

\* C8: scanned_pdf_detected is true exactly when (chars_per_page <=
\* min_chars_per_page or lines_per_page <= min_lines_per_page) and
\* pairs_after_dedupe <= max(6, 2 * pages), pages = max(1, pages_scanned);
\* 5 pages, 10 characters, 1 line and no pair are flagged under the default
\* thresholds.  (x / pages <= m is written x <= m * pages.)
C8_ScannedRule ==
    RouteReturned =>
      /\ ret.scanned_pdf_detected <=>
           /\ \/ arg.fingerprint.text_chars <= arg.min_chars_per_page * RoutePages
              \/ arg.fingerprint.lines_scanned <= arg.min_lines_per_page * RoutePages
           /\ arg.pairs_after_dedupe <= (IF 2 * RoutePages >= 6 THEN 2 * RoutePages ELSE 6)
      /\ (/\ DefaultThresholds
          /\ arg.fingerprint.pages_scanned = 5
          /\ arg.fingerprint.text_chars = 10
          /\ arg.fingerprint.lines_scanned = 1
          /\ arg.pairs_after_dedupe = 0) => ret.scanned_pdf_detected

\* C8's case: the document of 5 pages, 10 characters and 1 line without a
\* pair is flagged.
C8_Witness ==
    /\ RouteReturned
    /\ DefaultThresholds
    /\ arg.fingerprint.pages_scanned = 5
    /\ arg.fingerprint.text_chars = 10
    /\ arg.fingerprint.lines_scanned = 1
    /\ arg.pairs_after_dedupe = 0
    /\ ret.scanned_pdf_detected

\* A document of 500 characters per page without a pair, under the default
\* thresholds.
DenseTextNoPairs ==
    /\ RouteReturned
    /\ DefaultThresholds
    /\ arg.fingerprint.text_chars = 500 * RoutePages
    /\ arg.pairs_after_dedupe = 0

\* C9 as the specification states it: such a document is not flagged,
\* whatever its line count.
C9_AsStated == DenseTextNoPairs => ~ret.scanned_pdf_detected

\* C9: such a document is not flagged when it has more than 3 lines per
\* page; with 3 lines per page or fewer it is flagged.
C9_DenseTextNotFlagged ==
    DenseTextNoPairs =>
      (ret.scanned_pdf_detected <=> arg.fingerprint.lines_scanned <= 3 * RoutePages)

\* C9's case: 500 characters and 20 lines per page, no pair, not flagged.
C9_Witness ==
    /\ DenseTextNoPairs
    /\ arg.fingerprint.pages_scanned = 2
    /\ arg.fingerprint.lines_scanned = 40
    /\ ~ret.scanned_pdf_detected

\* Scanned-document detection returned true in this run and the caller
\* enabled scanned OCR.
DetectedAndEnabled ==
    scan_route.some /\ scan_route.scanned_pdf_detected /\ args.enable_scanned_ocr

\* C10: the OCR extraction is called only in a run where detection
\* returned true and the caller enabled scanned OCR; the envelope of every
\* other run has scanned_pdf_ocr_attempted false and no ocr_pairs.
C10_OcrOnlyWhenDetectedAndEnabled ==
    /\ "tesseract" \in Range(executed) => DetectedAndEnabled
    /\ (Written /\ ~DetectedAndEnabled) =>
         /\ ~payload.meta.scanned_pdf_ocr_attempted
         /\ payload.ocr_pairs = << >>

\* C10's case: detection fired, OCR was enabled, tesseract ran and gave
\* pairs.
C10_Witness ==
    /\ Written
    /\ DetectedAndEnabled
    /\ "tesseract" \in Range(executed)
    /\ payload.meta.scanned_pdf_ocr_attempted
    /\ payload.ocr_pairs # << >>

\* The fields of meta that report on the OCR path.
OcrMetaFields ==
    {"scanned_pdf_ocr_attempted", "scanned_pdf_ocr_backend_selected",
     "scanned_pdf_ocr_backend_fallback_used", "scanned_pdf_ocr_backend_reason",
     "scanned_pdf_ocr_pair_count", "scanned_pdf_ocr_confidence_avg",
     "scanned_pdf_ocr_low_confidence_pairs", "scanned_pdf_ocr_error"}

\* The envelope written in this step differs from the one main() would
\* write from the locals it holds before the OCR branch (the OCR not
\* attempted) in errors and in the OCR fields of meta only, and errors
\* gained nothing but the OCR error.
OnlyOcrFailureRecorded ==
    LET same(without) ==
            /\ \A f \in DOMAIN without \ {"errors", "meta"} : payload'[f] = without[f]
            /\ \A m \in DOMAIN without.meta \ OcrMetaFields :
                 payload'.meta[m] = without.meta[m]
            /\ payload'.errors =
                 without.errors \o (IF ocr'.error # ""
                                      THEN <<"scanned_pdf_ocr:" \o ocr'.error>> ELSE << >>)
    IN  /\ payload'.some
        /\ payload'.ok
        /\ payload'.pairs = deduped_pairs
        /\ payload'.meta.scanned_pdf_ocr_attempted
        /\ payload'.meta.scanned_pdf_ocr_error = ocr'.error
        /\ same([some |-> TRUE] @@ SuccessPayload(ocr))

\* C11: a step of the OCR branch that fails (no engine, the engine that is
\* not implemented, an exception of the engine) writes an envelope whose
\* ok, backend, pairs, kv_pairs, table_pairs, text_preview, pages and
\* non-OCR meta are what they would be had the branch not been entered;
\* only errors and the OCR fields of meta record the failure.
C11_OcrFailureIsolated ==
    [][(OcrNoEngine \/ OcrRaises) => OnlyOcrFailureRecorded]_vars

\* C11's case: a backend gave a pair, the document was taken for a scan,
\* tesseract was called and raised; the envelope holds the pair and the
\* error.
C11_Witness ==
    /\ Written
    /\ payload.ok
    /\ payload.pairs # << >>
    /\ ocr.attempted
    /\ "tesseract" \in Range(executed)
    /\ ocr.error = "tesseract_error"
    /\ "scanned_pdf_ocr:tesseract_error" \in Range(payload.errors)

\* The adapters called, in call order.
AdaptersCalled(calls) == SelectSeq(calls, LAMBDA token : token \in Adapters)

\* The row ids of a list of records, in order.
RowIds(records) == [i \in 1..Len(records) |-> records[i].row_id]

\* The second run has met the fingerprint outcome of the first.
SameFingerprintOutcome == ret.some /\ fingerprint_errors = ret.fingerprint_errors

\* The second run has ended, and its fingerprint and its backends returned
\* or raised as in the first.
SameOutcomes ==
    /\ SameFingerprintOutcome
    /\ Written
    /\ AdaptersCalled(executed) = AdaptersCalled(ret.executed)
    /\ extraction_error = ret.extraction_error
    /\ payload.ok = ret.payload.ok

LeftOf(text, sep) == SubSeq(text, 1, IndexOf(text, sep) - 1)

RightOf(text, sep) == SubSeq(text, IndexOf(text, sep) + Len(sep), Len(text))

\* The separators of the line once its whitespace is collapsed, the tab
\* left aside, in priority order.
PrintedSeparators(line) ==
    SelectSeq(<< <<":">>, <<" ", "-", " ">>, <<" ", "=", " ">> >>,
              LAMBDA sep : IndexOf(normalize(line), sep) > 0)

\* The line's only separator is a tab, with text on both sides of it.
OnlyTabSeparates(line) ==
    /\ PrintedSeparators(line) = << >>
    /\ IndexOf(line, <<"\t">>) > 0
    /\ normalize(LeftOf(line, <<"\t">>)) # << >>
    /\ normalize(RightOf(line, <<"\t">>)) # << >>

\* C13 as the specification states it: the line is split on the first
\* occurrence of the first of ":", " - ", " = ", tab it holds; a line whose
\* only separator is a tab gives the texts left and right of the tab; a
\* line without separator gives no pair.
C13_AsStated ==
    (pc = "returned" /\ "line" \in DOMAIN arg) =>
      LET line == arg.line
          printed == PrintedSeparators(line)
      IN  IF printed # << >>
            THEN ret.pair = <<normalize(LeftOf(normalize(line), printed[1])),
                              normalize(RightOf(normalize(line), printed[1]))>>
          ELSE IF OnlyTabSeparates(line)
            THEN ret.pair = <<normalize(LeftOf(line, <<"\t">>)),
                              normalize(RightOf(line, <<"\t">>))>>
          ELSE IF IndexOf(line, <<"\t">>) = 0
            THEN ret.pair = << << >>, << >> >>
          ELSE TRUE

\* The cells of a row that are not empty once their whitespace is
\* collapsed, in order.
NonEmptyCells(row) ==
    SelectSeq([i \in 1..Len(row) |-> normalize(row[i])], LAMBDA cell : cell # << >>)

\* The cells from the second on, " | " between them.
RECURSIVE JoinedFrom(_, _)
JoinedFrom(cells, i) ==
    IF i > Len(cells) THEN << >>
    ELSE IF i = Len(cells) THEN cells[i]
    ELSE cells[i] \o <<" ", "|", " ">> \o JoinedFrom(cells, i + 1)

\* The record the claim describes for a row of two non-empty cells or more.
IsRecordOfRow(record, row) ==
    /\ record.key = NonEmptyCells(row)[1]
    /\ record.value = JoinedFrom(NonEmptyCells(row), 2)
    /\ record.surface = "pdf_table"

TableReturned == pc = "returned" /\ "table" \in DOMAIN arg

\* C14 as the specification states it: every row with two non-empty cells
\* or more gives one record, the other rows give none.
C14_AsStated ==
    TableReturned =>
      LET rows == SelectSeq(arg.table, LAMBDA row : Len(NonEmptyCells(row)) >= 2)
      IN  /\ Len(ret.pairs) = Len(rows)
          /\ \A i \in 1..Len(rows) : IsRecordOfRow(ret.pairs[i], rows[i])

\* C14: the rows that give a record are those with two non-empty cells or
\* more whose first cell and joined rest make a valid pair, up to limit of
\* them, in table order; the record has the first non-empty cell as key,
\* the other non-empty cells joined with " | " as value, and surface
\* pdf_table.  Every other row is skipped.
C14_TableRows ==
    TableReturned =>
      LET valid(row) ==
              /\ Len(NonEmptyCells(row)) >= 2
              /\ RecordWithinBounds([key |-> NonEmptyCells(row)[1],
                                     value |-> JoinedFrom(NonEmptyCells(row), 2)])
          rows == SelectSeq(arg.table, valid)
      IN  /\ Len(ret.pairs) = Min(arg.limit, Len(rows))
          /\ \A i \in 1..Len(ret.pairs) : IsRecordOfRow(ret.pairs[i], rows[i])

\* C14's case: the row Sensor, PAW3395, Optical gave the one record with
\* key Sensor and value PAW3395 | Optical.
C14_Witness ==
    /\ TableReturned
    /\ arg.table = <<SensorRow>>
    /\ Len(ret.pairs) = 1
    /\ ret.pairs[1].key = <<"S", "e", "n", "s", "o", "r">>
    /\ ret.pairs[1].value =
         <<"P", "A", "W", "3", "3", "9", "5", " ", "|", " ", "O", "p", "t", "i", "c", "a", "l">>
    /\ ret.pairs[1].surface = "pdf_table"

DedupeReturned == pc = "returned" /\ "pairs" \in DOMAIN arg /\ "limit" \in DOMAIN arg

\* The case-insensitive, whitespace-collapsed (key, value) of a record.
FoldedSignature(record) == <<lower(normalize(record.key)), lower(normalize(record.value))>>

\* The positions, in increasing order, of the records that are the first
\* of the list with their signature.
FirstPositions(records) ==
    SelectSeq([i \in 1..Len(records) |-> i],
              LAMBDA i : \A j \in 1..(i - 1) :
                           FoldedSignature(records[j]) # FoldedSignature(records[i]))

\* C15: dedupe_pairs returns, in input order, the records that are the
\* first of the input with their case-insensitive, whitespace-collapsed
\* (key, value) - the first limit of them; every later record of a
\* signature is dropped, so no two records returned share a signature.
C15_FirstOccurrenceWins ==
    DedupeReturned =>
      LET firsts == FirstPositions(arg.pairs)
      IN  /\ Len(ret.out) = Min(arg.limit, Len(firsts))
          /\ \A i \in 1..Len(ret.out) : ret.out[i] = arg.pairs[firsts[i]]
          /\ \A i, j \in 1..Len(ret.out) :
               FoldedSignature(ret.out[i]) = FoldedSignature(ret.out[j]) => i = j

\* C15's case: a pair, another pair, and the first pair again in another
\* case and with other whitespace: the third record is dropped and the
\* first two are returned in order.
C15_Witness ==
    /\ DedupeReturned
    /\ Len(arg.pairs) = 3
    /\ arg.pairs[1].raw_key = <<"a", " ", "b">> /\ arg.pairs[1].raw_value = <<"v">>
    /\ arg.pairs[2].raw_key = <<"c", "d">>
    /\ arg.pairs[3].raw_key = <<"A", " ", " ", "b">> /\ arg.pairs[3].raw_value = <<"V">>
    /\ ret.out = <<arg.pairs[1], arg.pairs[2]>>

\* The row counter embedded in a record's row_id.
RowCounter(record) == record.row_id[4]

\* Within each surface the row counter grows along the list.
RowCounterIncreases(records) ==
    \A i, j \in 1..Len(records) :
       (i < j /\ records[i].surface = records[j].surface) =>
         RowCounter(records[i]) < RowCounter(records[j])

\* C16: in the envelope of a run no two records of pairs and ocr_pairs
\* taken together have the same row_id, and within each surface the row
\* counter of the row_id strictly increases along pairs and along
\* ocr_pairs.
C16_RowIdsUniqueAndIncreasing ==
    Written =>
      LET records == payload.pairs \o payload.ocr_pairs
      IN  /\ \A i, j \in 1..Len(records) :
               records[i].row_id = records[j].row_id => i = j
          /\ RowCounterIncreases(payload.pairs)
          /\ RowCounterIncreases(payload.ocr_pairs)

\* C16's case: pdfplumber read the three pages of the sheet with tables;
\* pairs holds free-text records of the first and of the third page and
\* table records, and the counter of the third page's record continues
\* that of the first page.
C16_Witness ==
    /\ Written
    /\ payload.ok
    /\ pdf = "tables"
    /\ used_backend = "pdfplumber"
    /\ \E i, j \in 1..Len(payload.pairs) :
         /\ i < j
         /\ payload.pairs[i].surface = "pdf_kv" /\ payload.pairs[j].surface = "pdf_kv"
         /\ payload.pairs[i].page = 1 /\ payload.pairs[j].page = 3
         /\ RowCounter(payload.pairs[j]) > 1
    /\ \E i \in 1..Len(payload.pairs) : payload.pairs[i].surface = "pdf_table"

\* The messages main() records for a fingerprint routine that raised.
FingerprintFailures ==
    {"pdfplumber_fingerprint_failed:pdfplumber_error",
     "pymupdf_fingerprint_failed:pymupdf_error"}

\* What holds of a run once its fingerprint routine has raised.
AfterFingerprintFailure ==
    /\ fingerprint = ZeroFingerprint
    /\ pc = "choose" => ENABLED Choose
    /\ pc \notin {"fingerprint", "choose"} =>
         /\ backend_choice = choose_backend(args.requested_backend, available, ZeroFingerprint)
         /\ attempts = build_attempt_order(normalize_backend(backend_choice.selected), available)
         /\ \E i \in 1..Len(attempts) : attempts[i] \in Adapters /\ IsAvailable(available, attempts[i])
         /\ (pc = "extract" /\ attempt > Len(attempts)) => AdaptersCalled(executed) # << >>
    /\ Written =>
         /\ AdaptersCalled(executed) # << >>
         /\ payload.meta.pdf_fingerprint = ZeroFingerprint
         /\ payload.errors # << >>
         /\ payload.errors[1] = fingerprint_errors[1]

\* C17: a step in which the fingerprint routine raises leaves the
\* fingerprint zero-valued, adds one message to fingerprint_errors and goes
\* on to the backend choice; from then on the run chooses a backend for
\* the zero fingerprint, calls at least one adapter and writes an envelope
\* with the zero fingerprint and with the message first in errors.
C17_FingerprintFailureNotFatal ==
    /\ [][FingerprintRaises =>
            /\ fingerprint' = ZeroFingerprint
            /\ Len(fingerprint_errors') = 1
            /\ fingerprint_errors'[1] \in FingerprintFailures
            /\ pc' = "choose"]_vars
    /\ [](fingerprint_errors # << >> => AfterFingerprintFailure)

\* C17's case: the fingerprint routine raised, a backend was chosen and
\* returned records, and the envelope carries both.
C17_Witness ==
    /\ Written
    /\ payload.ok
    /\ fingerprint_errors # << >>
    /\ payload.errors = fingerprint_errors
    /\ payload.meta.pdf_fingerprint = ZeroFingerprint
    /\ payload.pairs # << >>

\* The OCR branch was entered in a run that wrote its envelope.
OcrAttempted == Written /\ payload.ok /\ payload.meta.scanned_pdf_ocr_attempted

\* choose_ocr_backend picked the engine that is not implemented.
PaddleChosen ==
    choose_ocr_backend(args.requested_scanned_ocr_backend, available_ocr).selected = "paddleocr"

\* The envelope records an OCR error and holds no OCR record.
OcrErrorRecorded ==
    /\ payload.ocr_pairs = << >>
    /\ payload.meta.scanned_pdf_ocr_pair_count = 0
    /\ payload.meta.scanned_pdf_ocr_error # ""
    /\ ("scanned_pdf_ocr:" \o payload.meta.scanned_pdf_ocr_error) \in Range(payload.errors)

\* C18: when the OCR branch is entered with paddleocr chosen and tesseract
\* installed, tesseract is run in its place and the envelope reports
\* tesseract as selected with fallback_used true; when tesseract is not
\* installed, whatever was chosen, tesseract is not run, ocr_pairs is empty
\* and an OCR error is in meta and in errors (paddleocr_not_implemented
\* when paddleocr was chosen).
C18_UnimplementedEngineFallback ==
    OcrAttempted =>
      /\ (PaddleChosen /\ IsAvailable(available_ocr, "tesseract")) =>
           /\ payload.meta.scanned_pdf_ocr_backend_selected = "tesseract"
           /\ payload.meta.scanned_pdf_ocr_backend_fallback_used
           /\ payload.meta.scanned_pdf_ocr_backend_reason
                = "paddleocr_not_implemented_fallback_tesseract"
           /\ "tesseract" \in Range(executed)
      /\ ~IsAvailable(available_ocr, "tesseract") =>
           /\ "tesseract" \notin Range(executed)
           /\ OcrErrorRecorded
           /\ PaddleChosen =>
                payload.meta.scanned_pdf_ocr_error = "paddleocr_not_implemented"

\* C18's case: paddleocr was asked for and is installed, tesseract too;
\* tesseract ran in its place and gave records.
C18_Witness ==
    /\ OcrAttempted
    /\ args.requested_scanned_ocr_backend = "paddleocr"
    /\ PaddleChosen
    /\ payload.meta.scanned_pdf_ocr_backend_selected = "tesseract"
    /\ payload.meta.scanned_pdf_ocr_backend_fallback_used
    /\ payload.ocr_pairs # << >>

PrimarySurfaces == {"pdf_kv", "pdf_table"}

OcrSurfaces == {"scanned_pdf_ocr_kv", "scanned_pdf_ocr_table"}

\* A record without OCR confidence data.
NoOcrData(record) == record.ocr_confidence = NoConfidence /\ ~record.ocr_low_confidence

\* C19: every record of the envelope has one of the four surfaces; the
\* records of pairs have a primary surface (kv_pairs pdf_kv, table_pairs
\* pdf_table) and neither an ocr_confidence nor ocr_low_confidence set;
\* the records of ocr_pairs have an OCR surface.
C19_Surfaces ==
    Written =>
      /\ \A i \in 1..Len(payload.pairs) :
           /\ payload.pairs[i].surface \in PrimarySurfaces
           /\ NoOcrData(payload.pairs[i])
      /\ \A i \in 1..Len(payload.kv_pairs) : payload.kv_pairs[i].surface = "pdf_kv"
      /\ \A i \in 1..Len(payload.table_pairs) : payload.table_pairs[i].surface = "pdf_table"
      /\ \A i \in 1..Len(payload.ocr_pairs) : payload.ocr_pairs[i].surface \in OcrSurfaces
      /\ \A i \in 1..Len(payload.ocr_kv_pairs) :
           payload.ocr_kv_pairs[i].surface = "scanned_pdf_ocr_kv"
      /\ \A record \in Range(payload.pairs \o payload.ocr_pairs) :
           /\ record.surface \in Surfaces
           /\ ~NoOcrData(record) => record.surface \in OcrSurfaces

\* C19's case: the envelope of a scan read by tesseract holds an OCR record
\* with a confidence below the threshold and one with a confidence above
\* it.
C19_Witness ==
    /\ Written
    /\ payload.ok
    /\ pdf = "scan"
    /\ \E i, j \in 1..Len(payload.ocr_pairs) :
         /\ payload.ocr_pairs[i].ocr_low_confidence
         /\ payload.ocr_pairs[i].ocr_confidence # NoConfidence
         /\ ~payload.ocr_pairs[j].ocr_low_confidence
         /\ payload.ocr_pairs[j].ocr_confidence # NoConfidence
         /\ payload.ocr_pairs[i].surface = "scanned_pdf_ocr_kv"

\* A text whose whitespace is collapsed: single blanks between words only.
IsCollapsed(text) ==
    /\ \A i \in 1..Len(text) : text[i] \in Whitespace => text[i] = " "
    /\ \A i \in 1..(Len(text) - 1) : ~(text[i] = " " /\ text[i + 1] = " ")
    /\ text # << >> => (text[1] # " " /\ text[Len(text)] # " ")

\* The characters of a text that are not whitespace, in order.
Inked(text) == SelectSeq(text, LAMBDA c : c \notin Whitespace)

HasUpperCase(text) == \E i \in 1..Len(text) : text[i] \in UpperLetters

\* The records of the envelope.
Records == Range(payload.pairs \o payload.ocr_pairs)

\* C20 as the specification states it: normalized_key and normalized_value
\* are the lower-cased, whitespace-collapsed key and value, and raw_key and
\* raw_value have the case of the document.
C20_AsStated ==
    Written =>
      \A record \in Records :
         /\ record.normalized_key = lower(normalize(record.key))
         /\ record.normalized_value = lower(normalize(record.value))
         /\ lower(Inked(record.raw_key)) = Inked(record.normalized_key)
         /\ lower(Inked(record.raw_value)) = Inked(record.normalized_value)

\* C20: in every record normalized_key and normalized_value are the
\* whitespace-collapsed key and value in the case of the document, equal to
\* the fields key and value; raw_key and raw_value hold the same characters
\* in the same case.
C20_NormalizedKeepsCase ==
    Written =>
      \A record \in Records :
         /\ IsCollapsed(record.normalized_key) /\ IsCollapsed(record.normalized_value)
         /\ record.normalized_key = record.key
         /\ record.normalized_value = record.value
         /\ Inked(record.raw_key) = Inked(record.normalized_key)
         /\ Inked(record.raw_value) = Inked(record.normalized_value)

\* C20's case: the product sheet gave a record whose key and value hold
\* capital letters, and normalized_key holds them too.
C20_Witness ==
    /\ Written
    /\ payload.ok
    /\ pdf = "product"
    /\ \E record \in Records :
         /\ HasUpperCase(record.raw_key)
         /\ HasUpperCase(record.normalized_key)
         /\ HasUpperCase(record.normalized_value)
         /\ record.surface = "pdf_table"


\* The adapter whose result the run kept: the last PDF adapter called.
ProducingAdapter ==
    LET called == AdaptersCalled(executed) IN called[Len(called)]

PositionIn(list, token) == CHOOSE k \in 1..Len(list) : list[k] = token

\* main() has built its attempt list.
AttemptsBuilt == pc \in {"extract", "route", "ocr", "done"}

\* The entries of attempts the for loop has been through.
Tried == SubSeq(attempts, 1, IF extraction.some THEN attempt ELSE attempt - 1)

\* The adapters that raised, in call order.
Raised ==
    LET called == AdaptersCalled(executed)
    IN  IF extraction.some THEN SubSeq(called, 1, Len(called) - 1) ELSE called

\* The loop goes through attempts in order, calls every adapter it meets,
\* stops at the first that returns, and extraction_error is the message
\* of the adapter that raised last; the envelope carries it when it is
\* not empty.
OneAttemptAtATime ==
    /\ AdaptersCalled(executed) = AdaptersCalled(Tried)
    /\ extraction.some => used_backend = attempts[attempt]
    /\ IF Raised = << >> THEN extraction_error = ""
       ELSE extraction_error \in {"", Raised[Len(Raised)] \o "_error"}
    /\ Written =>
         IF payload.ok
           THEN extraction_error # "" => extraction_error \in Range(payload.errors)
           ELSE payload.error \in {extraction_error, "no_pdf_backend_available"}

\* C22 as the specification states it: after the selected backend the
\* attempt list holds the remaining available backends in the order of
\* the ranked list choose_backend built for the fingerprint.
C22_AsStated ==
    AttemptsBuilt =>
      LET rest == Tail(attempts)
          ranked == RankedAsStated(fingerprint.table_density)
      IN  /\ attempts[1] = backend_choice.selected
          /\ \A i, j \in 1..Len(rest) :
               (i < j /\ rest[i] \in Range(ranked) /\ rest[j] \in Range(ranked)) =>
                 PositionIn(ranked, rest[i]) < PositionIn(ranked, rest[j])
          /\ OneAttemptAtATime

\* C22: the attempt list starts with the selected backend and continues
\* with the other available backends in the order pdfplumber, pymupdf,
\* camelot, tabula, whatever the fingerprint; an adapter is called only
\* after every adapter before it in the list raised, and the message of
\* the last one that raised is kept and, when not empty, written to the
\* envelope.
C22_AttemptOrder ==
    AttemptsBuilt =>
      LET rest == Tail(attempts)
          fixed == <<"pdfplumber", "pymupdf", "camelot", "tabula">>
      IN  /\ attempts[1] = backend_choice.selected
          /\ Range(rest) = {token \in Backends : available[token] /\ token # attempts[1]}
          /\ \A i, j \in 1..Len(rest) :
               i < j => PositionIn(fixed, rest[i]) < PositionIn(fixed, rest[j])
          /\ OneAttemptAtATime

\* C22's case: a table-dense document, pymupdf requested and installed
\* next to pdfplumber and camelot; pymupdf raised, pdfplumber, which the
\* list holds before camelot, returned, and the envelope holds the
\* message of pymupdf.
C22_Witness ==
    /\ Written
    /\ payload.ok
    /\ fingerprint.table_density >= TableDenseThreshold
    /\ attempts = <<"pymupdf", "pdfplumber", "camelot">>
    /\ executed = <<"pymupdf", "pdfplumber">>
    /\ "pymupdf_error" \in Range(payload.errors)
    /\ payload.backend.selected = "pdfplumber"


\* C23: in a run with --backend legacy no adapter of pdfplumber, pymupdf or
\* camelot is called (tabula has none), and the envelope reports
\* backend.selected = "legacy".
C23_AsStated ==
    args.requested_backend = "legacy" =>
      /\ AdaptersCalled(executed) = << >>
      /\ Written => payload.backend.selected = "legacy"


\* The unit of a document a record was extracted from: the text of its
\* page, or one table of it.
UnitOf(record) == <<record.page, record.surface, record.table_id>>

\* The number of raw pairs an adapter had accumulated before it turned to
\* the unit the i-th one comes from.
AccumulatedBefore(pairs, i) ==
    Cardinality({j \in 1..Len(pairs) : j < i /\ UnitOf(pairs[j]) # UnitOf(pairs[i])})

\* C24: in the raw pairs an adapter returned, no pair comes from a page
\* text or a table the adapter turned to after it had accumulated
\* 3 * max_pairs pairs.
C24_AsStated ==
    extraction.some =>
      \A i \in 1..Len(extraction.pairs) :
         AccumulatedBefore(extraction.pairs, i) < EarlyStopFactor * args.max_pairs


\* The loop of main() is about to call the adapter of a text backend.
TextAdapterDue ==
    /\ pc = "extract"
    /\ attempt <= Len(attempts)
    /\ attempts[attempt] \in {"pdfplumber", "pymupdf"}

\* C25: whatever page of the document fails to give its text or its
\* tables, the adapter of pdfplumber or pymupdf returns a result, and
\* unless it stopped early the result covers every page of the document
\* within max_pages.
C25_AsStated ==
    TextAdapterDue =>
      LET survives(result) ==
              /\ ~result.raised
              /\ Len(result.pairs) < EarlyStopFactor * args.max_pairs =>
                   Len(result.pages) = Min(args.max_pages, Len(Document(pdf).pages))
      IN  survives(RunAdapter(attempts[attempt], Document(pdf)))


\* The steps from one stage of main() to the next: fingerprint, backend
\* selection, extraction, dedup with scanned-document detection, OCR,
\* and the end of the run, which follows the extraction directly when no
\* backend gave one.
StageSteps ==
    {<<"fingerprint", "choose">>, <<"choose", "extract">>, <<"extract", "route">>,
     <<"route", "ocr">>, <<"ocr", "done">>}

\* What each stage finds when it starts and leaves when it ends.
StageOutputs ==
    /\ pc \in {"fingerprint", "choose"} =>
         /\ backend_choice = NoChoice
         /\ attempts = << >>
         /\ executed = << >>
    /\ pc \in {"fingerprint", "choose", "extract"} =>
         /\ ~extraction.some
         /\ ~scan_route.some
         /\ deduped_pairs = << >>
    /\ pc \in {"extract", "route", "ocr", "done"} =>
         /\ backend_choice # NoChoice
         /\ backend_choice.table_density = fingerprint.table_density
         /\ backend_choice.pages_scanned = fingerprint.pages_scanned
         /\ attempts # << >>
    /\ pc = "route" => extraction.some /\ ~scan_route.some
    /\ pc \in {"fingerprint", "choose", "extract", "route", "ocr"} =>
         /\ "tesseract" \notin Range(executed)
         /\ ~payload.some
    /\ pc = "ocr" => extraction.some /\ scan_route.some /\ ocr.some /\ ~ocr.attempted
    /\ "tesseract" \in Range(executed) => scan_route.some /\ scan_route.scanned_pdf_detected
    /\ scan_route.some =>
         /\ extraction.some
         /\ extraction.meta.backend = used_backend
         /\ Range(deduped_pairs) \subseteq Range(extraction.pairs)
         /\ scan_route.pairs_after_dedupe = Len(deduped_pairs)
    /\ (Written /\ payload.ok) =>
         /\ payload.meta.pairs_after_dedupe = scan_route.pairs_after_dedupe
         /\ payload.meta.scanned_pdf_detected = scan_route.scanned_pdf_detected
         /\ payload.meta.pdf_fingerprint = fingerprint

\* C26: main() goes through its stages in the order fingerprint, backend
\* selection, extraction, dedup, scanned-document detection, OCR, each
\* starting from the output of the one before, and the detection is given
\* the number of deduplicated pairs of the extraction that returned.
C26_StagesInOrder ==
    /\ [][pc' # pc =>
            \/ <<pc, pc'>> \in StageSteps
            \/ <<pc, pc'>> = <<"extract", "done">> /\ ~extraction.some /\ ~payload'.ok]_vars
    /\ []StageOutputs

\* C26's case: a run on the product sheet, whose text holds a line twice,
\* went through every stage: the detection was given fewer pairs than the
\* adapter returned.
C26_Witness ==
    /\ Written
    /\ payload.ok
    /\ pdf = "product"
    /\ Len(extraction.pairs) > Len(deduped_pairs)
    /\ scan_route.pairs_after_dedupe = Len(deduped_pairs)
    /\ payload.meta.pairs_before_dedupe > payload.meta.pairs_after_dedupe


\* The call of a routine that opens the document has ended, by a return
\* or by an exception.
CallEnded == pc \in {"returned", "propagated"} /\ ret.some /\ "handle" \in DOMAIN ret

\* C27: when a fingerprint, extraction or OCR routine has returned or has
\* let an exception out, the document handle it opened is closed; a
\* routine ends without a closed handle only when the opening itself
\* failed and there was none.
C27_HandlesClosed ==
    /\ CallEnded => ret.handle # "open"
    /\ (CallEnded /\ pc = "returned") => ret.handle = "closed" /\ ~ret.exc.some
    /\ (CallEnded /\ ret.handle = "none") => pc = "propagated" /\ ret.exc.some
    /\ (pc \in {"opened", "closing"}) => ret.handle = "open"

\* C27's case: extract_with_pymupdf met the page of the torn document
\* whose text cannot be read; the exception left the routine and the
\* handle is closed.
C27_Witness ==
    /\ CallEnded
    /\ pc = "propagated"
    /\ arg.routine = "extract_with_pymupdf"
    /\ arg.pdf = "torn"
    /\ ret.exc.some
    /\ ret.handle = "closed"


\* C28: the envelope of a run without extraction is written only when no
\* backend is installed or every backend of the attempt list was called
\* and raised; tabula counts as a backend like the others.
C28_AsStated ==
    TotalFailure =>
      \/ \A token \in Backends : ~available[token]
      \/ \A i \in 1..Len(attempts) :
           attempts[i] \in Backends => attempts[i] \in Range(executed)


\* The backend choose_backend picks when nothing forces a fallback: the
\* requested one, or under auto the first available one of the ranked
\* list ("legacy" when there is none).
PickWithoutFallback ==
    LET ranked == RankedAsStated(fingerprint.table_density)
    IN  IF args.requested_backend # "auto" THEN args.requested_backend
        ELSE IF SomeAvailable(ranked, available)
          THEN CHOOSE token \in Backends : IsFirstAvailable(token, ranked, available)
        ELSE "legacy"

\* The backend tokens a reason of the form requested_<t> or auto_<t> names.
NamedByReason(reason) ==
    {token \in Backends : reason \in {"requested_" \o token, "auto_" \o token}}

FallbackFlagAsStated ==
    /\ payload.backend.fallback_used <=> payload.backend.selected # PickWithoutFallback
    /\ payload.meta.backend_fallback_used = payload.backend.fallback_used
    /\ payload.meta.backend_reason = payload.backend.reason

\* C29 as the specification states it: a reason requested_<t> or auto_<t>
\* comes with backend.selected = t.
C29_AsStated ==
    (Written /\ payload.ok) =>
      /\ \A token \in NamedByReason(payload.backend.reason) : payload.backend.selected = token
      /\ FallbackFlagAsStated

\* C29: in the envelope of a successful run a reason requested_<t> or
\* auto_<t> comes with backend.selected = t when fallback_used is false
\* (after a fallback at run time the reason still names the backend chosen
\* first), and fallback_used is true exactly when backend.selected is not
\* the backend choose_backend picks without fallback.
C29_BackendMetadata ==
    (Written /\ payload.ok) =>
      /\ ~payload.backend.fallback_used =>
           \A token \in NamedByReason(payload.backend.reason) : payload.backend.selected = token
      /\ FallbackFlagAsStated

\* C29's case: pdfplumber was requested and installed, raised, and pymupdf
\* returned: reason requested_pdfplumber, selected pymupdf, fallback_used.
C29_Witness ==
    /\ Written
    /\ payload.ok
    /\ payload.backend.reason = "requested_pdfplumber"
    /\ payload.backend.selected = "pymupdf"
    /\ payload.backend.fallback_used
    /\ ~backend_choice.fallback_used


\* fetch_page_with_retry is in its loop or has left it.
Fetching == pc \in {"fetching", "returned", "propagated"} /\ ret.some /\ "calls" \in DOMAIN ret

\* What C30 says apart from the length of the sleeps: at most
\* max_retries + 1 calls of fetch_page_once; a return at the first call
\* that returns; one sleep before each retry and only caught exceptions
\* retried; an exception leaves the function either uncaught, at once, or
\* caught after max_retries retries, and it is the last one raised.
RetriesBounded ==
    Fetching =>
      /\ ret.calls <= arg.max_retries + 1
      /\ ret.attempt <= arg.max_retries
      /\ Len(ret.slept) = ret.attempt
      /\ \A k \in 1..Len(ret.slept) : ret.errors[k] \in RetryableErrors
      /\ pc = "fetching" => ret.calls = ret.attempt /\ Len(ret.errors) = ret.attempt
      /\ pc = "returned" => ret.calls = Len(ret.errors) + 1 /\ ret.raised = ""
      /\ pc = "propagated" =>
           /\ ret.calls = Len(ret.errors)
           /\ ret.raised = ret.errors[Len(ret.errors)]
           /\ \/ ret.raised \in OtherErrors
              \/ ret.raised \in RetryableErrors /\ ret.attempt = arg.max_retries

\* Every pass of the loop that does not leave it uses up one of the
\* max_retries retries, so the loop ends.
RetriesUsedUp ==
    [][(pc = "fetching" /\ pc' = "fetching") =>
         /\ ret'.attempt = ret.attempt + 1
         /\ ret'.attempt <= arg.max_retries]_vars

\* C30 as the specification states it: the sleep before the k-th retry is
\* retry_base * 2^(k-1).
C30_AsStated ==
    /\ RetriesBounded
    /\ Fetching =>
         \A k \in 1..Len(ret.slept) : ret.slept[k] = arg.retry_base_ms * Pow2(k - 1)

\* C30: fetch_page_with_retry calls fetch_page_once at most
\* max_retries + 1 times, returns the first response, sleeps
\* max(50 ms, retry_base) * 2^(k-1) before the k-th retry, raises the last
\* exception again after max_retries retries, never retries an exception
\* it does not catch, and its loop ends.
C30_RetryBounded ==
    /\ RetriesUsedUp
    /\ []RetriesBounded
    /\ [](Fetching =>
            \A k \in 1..Len(ret.slept) :
               ret.slept[k] = Max(MinDelayMs, arg.retry_base_ms) * Pow2(k - 1))

\* C30's case: with the smallest retry base and two or more retries
\* allowed every call failed: max_retries + 1 calls, sleeps of 50, 100, ...
\* milliseconds, and the last exception, a timeout after a URL error, left
\* the function.
C30_Witness ==
    /\ Fetching
    /\ pc = "propagated"
    /\ arg.retry_base_ms = MinRetryBaseMs
    /\ arg.max_retries >= 2
    /\ ret.calls = arg.max_retries + 1
    /\ ret.slept[1] = MinDelayMs
    /\ ret.slept[2] = 2 * MinDelayMs
    /\ ret.errors[ret.calls - 1] = "URLError"
    /\ ret.raised = "TimeoutError"

====
